---- MODULE Spec2Model ----
(***************************************************************************)
(* The kernel worker (bootstrap, persistence, request handler) of          *)
(* apps/web/src/kernel/kernel.worker.ts, its Storage Capability and        *)
(* Durable Byte Store, and the caller-side pending-call table.             *)
(***************************************************************************)
EXTENDS FiniteSets, Integers, Sequences, TLC

(***************************************************************************)
(* Bounds.                                                                 *)
(***************************************************************************)
\* Requests sent to the worker in one run (ids are 1..MaxReqs).
MaxReqs == 2
\* Requests sent in one run of the bootstrap specification.
MaxBootReqs == 1
\* Requests sent in one run of the client specification.
MaxCalls == 2
\* Copies of already received messages the client is shown in one run.
MaxDup == 1
\* Times the worker is started on the same store in the restart specification.
MaxRuns == 2
\* Lines typed into one Terminal.
MaxExecs == 2
\* Characters of a path argument given to resolvePath.
MaxPathLen == 7
\* Characters of an input given to tokenize.
MaxInputLen == 4
\* The lines a user types before the page is reloaded.
MaxRemovals == 3
\* The windows opened in all, the first one included.
MaxWindows == 3

(***************************************************************************)
(* Paths and trees.  A path is the sequence of its segments; the root is   *)
(* <<>>.  A tree maps every path of the universe to NONE, DIR or, for a    *)
(* file, its content.                                                      *)
(***************************************************************************)
NONE == "<none>"
DIR == "<dir>"

\* kernel.worker.ts:64
baseDirs ==
  << <<"home">>, <<"bin">>, <<"etc">>, <<"tmp">>, <<"var">>, <<"usr">>,
     <<"usr", "local">>, <<"opt">>, <<"dev">>, <<"apps">> >>

\* kernel.worker.ts:70
appDirs ==
  << <<"apps", "terminal">>, <<"apps", "textviewer">>, <<"apps", "filebrowser">>,
     <<"apps", "notes">>, <<"apps", "editor">> >>

AppConfigPath == <<"etc", "app-config.json">>
ThemePath == <<"etc", "theme.css">>
EditorDir == <<"apps", "editor">>
EditorReadme == <<"apps", "editor", "README.txt">>

\* The default files of the seeding step, in the order they are written
\* (kernel.worker.ts:77, 78, 258, 270, 280, 291, 300, 309, 381).
seedFiles ==
  << <<AppConfigPath, "configText">>,
     <<ThemePath, "defaultThemeCss">>,
     << <<"home", "welcome.txt">>, "welcomeText">>,
     << <<"apps", "terminal", "README.txt">>, "terminalInfo">>,
     << <<"apps", "textviewer", "README.txt">>, "textviewerInfo">>,
     << <<"apps", "filebrowser", "README.txt">>, "filebrowserInfo">>,
     << <<"apps", "notes", "README.txt">>, "notesInfo">>,
     <<EditorReadme, "editorInfo">>,
     << <<"home", "resume.txt">>, "resumeText">> >>

\* Paths the callers of the model use besides the seeded ones (and /a.txt).
DocsDir == <<"docs">>
DocA == <<"docs", "a.txt">>
DocB == <<"docs", "b.txt">>

Range(s) == {s[i] : i \in DOMAIN s}

Paths ==
  Range(baseDirs) \cup Range(appDirs) \cup {f[1] : f \in Range(seedFiles)}
    \cup {DocsDir, DocA, DocB, <<"a.txt">>}

Root == <<>>

Parent(p) == SubSeq(p, 1, Len(p) - 1)

IsPrefix(a, p) == Len(a) <= Len(p) /\ SubSeq(p, 1, Len(a)) = a

EmptyTree == [p \in Paths |-> NONE]

IsDir(t, p) == p = Root \/ (p \in Paths /\ t[p] = DIR)
IsFile(t, p) == p \in Paths /\ t[p] # NONE /\ t[p] # DIR
Exists(t, p) == IsDir(t, p) \/ IsFile(t, p)

Children(t, p) == {c \in Paths : Parent(c) = p /\ t[c] # NONE}

(***************************************************************************)
(* Storage Capability: each operation returns                              *)
(*   [ok, tree, result, error]; a failing operation leaves the tree as it  *)
(* was.  The result is a record of one shape for every operation.          *)
(***************************************************************************)
NoResult == [data |-> "", names |-> {}, is_dir |-> FALSE, is_file |-> FALSE, size |-> 0]

FsOk(t, res) == [ok |-> TRUE, tree |-> t, result |-> res, error |-> ""]
FsErr(t, msg) == [ok |-> FALSE, tree |-> t, result |-> NoResult, error |-> msg]

fs_mkdir(t, p) ==
  IF p \notin Paths \/ ~IsDir(t, Parent(p)) THEN FsErr(t, "parent missing")
  ELSE IF IsFile(t, p) THEN FsErr(t, "exists as non-directory")
  ELSE FsOk([t EXCEPT ![p] = DIR], NoResult)

fs_readdir(t, p) ==
  IF ~IsDir(t, p) THEN FsErr(t, "not a directory")
  ELSE FsOk(t, [NoResult EXCEPT !.names = {c[Len(c)] : c \in Children(t, p)}])

fs_read_file(t, p) ==
  IF ~IsFile(t, p) THEN FsErr(t, "not a file")
  ELSE FsOk(t, [NoResult EXCEPT !.data = t[p]])

fs_write_file(t, p, data) ==
  IF p \notin Paths \/ ~IsDir(t, Parent(p)) THEN FsErr(t, "parent missing")
  ELSE IF IsDir(t, p) THEN FsErr(t, "is a directory")
  ELSE FsOk([t EXCEPT ![p] = data], NoResult)

fs_stat(t, p) ==
  IF ~Exists(t, p) THEN FsErr(t, "not found")
  ELSE FsOk(t, [NoResult EXCEPT !.is_dir = IsDir(t, p),
                               !.is_file = IsFile(t, p),
                               !.size = IF IsFile(t, p) THEN Len(t[p]) ELSE 0])

fs_rm(t, p) ==
  IF ~IsFile(t, p) THEN FsErr(t, "not a file")
  ELSE FsOk([t EXCEPT ![p] = NONE], NoResult)

fs_rmdir(t, p) ==
  IF p = Root \/ ~IsDir(t, p) THEN FsErr(t, "not a directory")
  ELSE IF Children(t, p) # {} THEN FsErr(t, "directory not empty")
  ELSE FsOk([t EXCEPT ![p] = NONE], NoResult)

\* The path q after its prefix from is replaced by to.
Rebase(q, from, to) == to \o SubSeq(q, Len(from) + 1, Len(q))

fs_mv(t, from, to) ==
  IF from = Root \/ ~Exists(t, from) THEN FsErr(t, "source missing")
  ELSE IF Exists(t, to) \/ to \notin Paths \/ ~IsDir(t, Parent(to)) \/ IsPrefix(from, to)
         \/ \E q \in Paths : IsPrefix(from, q) /\ t[q] # NONE /\ Rebase(q, from, to) \notin Paths
    THEN FsErr(t, "destination conflict")
  ELSE FsOk([q \in Paths |->
               IF IsPrefix(to, q)
                 THEN IF Rebase(q, to, from) \in Paths THEN t[Rebase(q, to, from)] ELSE NONE
               ELSE IF IsPrefix(from, q) THEN NONE
               ELSE t[q]], NoResult)

fs_cp(t, from, to) ==
  IF ~IsFile(t, from) THEN FsErr(t, "source missing or is a directory")
  ELSE IF to \notin Paths \/ ~IsDir(t, Parent(to)) \/ IsDir(t, to)
    THEN FsErr(t, "destination conflict")
  ELSE FsOk([t EXCEPT ![to] = t[from]], NoResult)

hello(name) == [NoResult EXCEPT !.data = "Hello, " \o name]

(***************************************************************************)
(* Snapshots: the bytes of a tree are its existing entries; restoring      *)
(* rebuilds the tree from the entries.                                     *)
(***************************************************************************)
fs_dump_state(t) == {<<p, t[p]>> : p \in {q \in Paths : t[q] # NONE}}

fs_init_from_bytes(bytes) ==
  [p \in Paths |->
     IF \E e \in bytes : e[1] = p THEN (CHOOSE e \in bytes : e[1] = p)[2] ELSE NONE]

(***************************************************************************)
(* Durable Byte Store: the value under FS_KEY.                             *)
(***************************************************************************)
Absent == [present |-> FALSE, corrupt |-> FALSE, bytes |-> {}]
Stored(bytes) == [present |-> TRUE, corrupt |-> FALSE, bytes |-> bytes]
Corrupt == [present |-> TRUE, corrupt |-> TRUE, bytes |-> {}]

(***************************************************************************)
(* Seeding (kernel.worker.ts:61-387): the directories, then the files.     *)
(***************************************************************************)
SeedOps ==
  [i \in 1..Len(baseDirs) |-> [op |-> "mkdir", path |-> baseDirs[i], data |-> ""]]
  \o [i \in 1..Len(appDirs) |-> [op |-> "mkdir", path |-> appDirs[i], data |-> ""]]
  \o [i \in 1..Len(seedFiles) |->
        [op |-> "write", path |-> seedFiles[i][1], data |-> seedFiles[i][2]]]

SeedStep(t, i) ==
  IF SeedOps[i].op = "mkdir" THEN fs_mkdir(t, SeedOps[i].path)
  ELSE fs_write_file(t, SeedOps[i].path, SeedOps[i].data)

\* The seed operations i..k-1 applied in order; the one that fails stops the run.
RECURSIVE SeedRun(_, _, _)
SeedRun(t, i, k) ==
  IF i >= k THEN [ok |-> TRUE, tree |-> t, ran |-> i - 1]
  ELSE LET r == SeedStep(t, i)
       IN IF r.ok THEN SeedRun(r.tree, i + 1, k) ELSE [ok |-> FALSE, tree |-> t, ran |-> i - 1]

NoFault == Len(SeedOps) + 1

\* The seed operation at which the Storage Capability may fault: the first
\* one, a base directory after /etc, the first default file, a later file.
SeedFaultAt == {1, 4, 16, 18}

SeededTree == SeedRun(EmptyTree, 1, NoFault).tree

\* A user's tree: the seeded one with /docs/a.txt.
UserTree == [SeededTree EXCEPT ![DocsDir] = DIR, ![DocA] = "hi"]

\* A tree saved by a version that had no /apps/editor.
OldTree == [UserTree EXCEPT ![EditorDir] = NONE, ![EditorReadme] = NONE]

\* A tree saved by a version that had neither /etc/theme.css nor /apps/editor.
OlderTree == [OldTree EXCEPT ![ThemePath] = NONE]

\* An old tree whose user has edited /etc/app-config.json.
EditedTree == [OldTree EXCEPT ![AppConfigPath] = "hi"]

InitialStores ==
  {Absent, Corrupt, Stored(fs_dump_state(UserTree)), Stored(fs_dump_state(OldTree)),
   Stored(fs_dump_state(OlderTree)), Stored(fs_dump_state(EditedTree))}

\* The record of the seeding step: the number of seed operations that
\* succeeded and whether one faulted.
NotSeeded == [ran |-> 0, fault |-> FALSE]
Seeded(n, fault) == [ran |-> n, fault |-> fault]

\* line 61: `if (!persisted)`.
SeedNeededAlways(s) == TRUE
SeedNeeded(s) == ~s.present

(***************************************************************************)
(* Requests (protocol KernelRequest).  A message whose id is 0 or whose    *)
(* type is "" stands for one with a missing (falsy) id or type.            *)
(***************************************************************************)
Req(type, path, to, data) == [type |-> type, path |-> path, to |-> to, data |-> data]

MutatingTypes == {"fs_mkdir", "fs_write_file", "fs_rm", "fs_rmdir", "fs_mv", "fs_cp"}
ReadOnlyTypes == {"hello", "fs_readdir", "fs_read_file", "fs_stat"}

WriteReq == Req("fs_write_file", DocA, Root, "yo")
StatReq == Req("fs_stat", DocA, Root, "")
HelloReq == Req("hello", Root, Root, "bob")
NoReq == Req("", Root, Root, "")

\* The requests callers send in the model.
ReqMenu ==
  { HelloReq,
    Req("fs_mkdir", DocsDir, Root, ""),
    Req("fs_readdir", DocsDir, Root, ""),
    WriteReq,
    Req("fs_read_file", DocA, Root, ""),
    StatReq,
    Req("fs_rm", DocA, Root, ""),
    Req("fs_rmdir", DocsDir, Root, ""),
    Req("fs_mv", DocA, DocB, ""),
    Req("fs_cp", DocA, DocB, ""),
    Req("bogus", Root, Root, "") }


\* The requests of the client specification.
RpcMenu == {HelloReq, WriteReq, StatReq}

VARIABLES
  bootPc,       \* where the bootstrap IIFE is suspended, or "done"
  api,          \* TRUE once `api` is assigned (kernel.worker.ts:55)
  fsUsable,     \* TRUE when the Storage Capability serves filesystem calls
  seed,         \* what the seeding step did: operations that succeeded, and whether one faulted
  tree,         \* the Storage Capability's in-memory tree
  store,        \* the Durable Byte Store's value under FS_KEY
  writes,       \* idbSetBytes calls in flight, each with the flow awaiting it
  setCalls,     \* number of idbSetBytes calls made so far
  inbox,        \* messages delivered to the worker, not yet dispatched
  posted,       \* every message the worker has posted, in order
  nextId,       \* the next request id
  accepted,     \* ids of the well-formed requests sent to the worker
  applied,      \* ids of the requests for which the Storage Capability ran an operation, in order
  afterFatal,   \* ids of the requests sent after `fatal` was posted
  ended,        \* how each earlier run of the worker on this store ended
  delivered,    \* <<i, n>>: the client has received posted[i] for the n-th time
  calls,        \* ids of the calls the client has made
  pending,      \* the client's pending table (ids of outstanding calls)
  completions,  \* per call id, the responses that completed it
  clientReady,  \* TRUE once the client has received `ready`
  cwd,          \* Terminal.cwd
  history,      \* Terminal.history
  inputs,       \* the lines exec was called with, in call order
  last,         \* what the last exec returned, the calls it issued, the hook it invoked
  page,         \* "live", or "reloading" after window.location.reload()
  given,        \* the arguments a function of terminal.ts is called with
  got,          \* what the function returned (<<>> before the call)
  windows,      \* AppContent's `windows` state
  focusedWindow,\* AppContent's `focusedWindow` state
  created       \* number of window ids crypto.randomUUID() has given out

vars ==
  <<bootPc, api, fsUsable, seed, tree, store, writes, setCalls, inbox, posted, nextId,
    accepted, applied, afterFatal, ended, delivered, calls, pending, completions, clientReady,
    cwd, history, inputs, last, page, given, got, windows, focusedWindow, created>>

workerVars == <<bootPc, api, fsUsable, seed, tree, store, writes, setCalls, posted, applied>>
clientVars == <<delivered, calls, pending, completions, clientReady>>
termVars == <<cwd, history, inputs, last, page>>
fnVars == <<given, got>>
wmVars == <<windows, focusedWindow, created>>

Ids == 1..(MaxReqs + MaxBootReqs + MaxCalls)

Kinds(k) == {m \in Range(posted) : m.kind = k}
ReadyPosted == Kinds("ready") # {}
FatalPosted == Kinds("fatal") # {}

Lifecycle(kind, msg) ==
  [kind |-> kind, id |-> 0, ok |-> kind = "ready", result |-> NoResult, error |-> msg,
   for |-> [id |-> 0, type |-> "", path |-> Root, to |-> Root, data |-> ""]]

(***************************************************************************)
(* persist (kernel.worker.ts:436-440): dump the tree, call idbSetBytes.    *)
(* The caller awaits the write; owner 0 is the bootstrap.                  *)
(***************************************************************************)
\* `before` is history: the tree the caller started on, read by properties only.
Write(owner, req, t, res) ==
  [owner |-> owner, req |-> req, bytes |-> fs_dump_state(t), result |-> res, before |-> tree]

persist(owner, req, t, res) ==
  /\ writes' = writes \cup {Write(owner, req, t, res)}
  /\ setCalls' = setCalls + 1

(***************************************************************************)
(* Repair (kernel.worker.ts:389-427): the synchronous run of the bootstrap *)
(* from probe k until it awaits a persist, posts ready, or faults.         *)
(***************************************************************************)
ProbeUnmade == <<AppConfigPath, ThemePath, <<"apps", "editor", "index.txt">> >>
Probe == <<AppConfigPath, ThemePath, EditorDir>>

RepairOps(k, t) ==
  IF k = 1 THEN fs_write_file(t, AppConfigPath, "configText")
  ELSE IF k = 2 THEN fs_write_file(t, ThemePath, "defaultThemeCss")
  ELSE LET m == fs_mkdir(t, EditorDir)
       IN IF m.ok THEN fs_write_file(m.tree, EditorReadme, "editorInfo") ELSE m

Outcome(t, pc, dump, signal, msg) ==
  [tree |-> t, pc |-> pc, dump |-> dump, signal |-> signal, error |-> msg]

RepairPc(k) == IF k = 1 THEN "repairPersist1" ELSE IF k = 2 THEN "repairPersist2" ELSE "repairPersist3"

RepairRewrite(k, t) ==
  LET r == RepairOps(k, t)
  IN IF r.ok THEN Outcome(r.tree, RepairPc(k), TRUE, "none", "")
     ELSE Outcome(r.tree, "done", FALSE, "fatal", r.error)

RECURSIVE Repair(_, _)
Repair(k, t) ==
  IF k > Len(Probe) THEN Outcome(t, "done", FALSE, "ready", "")
  ELSE IF fs_stat(t, Probe[k]).ok THEN Repair(k + 1, t)
  ELSE LET r == RepairOps(k, t)
       IN IF r.ok THEN Outcome(r.tree, RepairPc(k), TRUE, "none", "")
          ELSE Outcome(r.tree, "done", FALSE, "fatal", r.error)

\* The bootstrap takes the outcome of a synchronous run.
BootTake(o) ==
  /\ tree' = o.tree
  /\ bootPc' = o.pc
  /\ IF o.dump THEN persist(0, NoReq, o.tree, NoResult)
     ELSE UNCHANGED <<writes, setCalls>>
  /\ posted' = IF o.signal = "none" THEN posted
               ELSE Append(posted, Lifecycle(o.signal, o.error))

\* The catch of the IIFE (lines 429-433).
FatalSilent(msg) == Outcome(tree, "done", FALSE, "none", msg)
Fatal(msg) == Outcome(tree, "done", FALSE, "fatal", msg)

(***************************************************************************)
(* Bootstrap IIFE (kernel.worker.ts:42-434).                               *)
(***************************************************************************)
\* await import('kernel') resolves (line 46).
BootImported ==
  /\ bootPc = "import"
  /\ bootPc' = "wasm"
  /\ UNCHANGED <<api, seed, fsUsable, tree, store, writes, setCalls, inbox, posted, nextId, accepted,
                 applied,
                 afterFatal, ended, clientVars, termVars, fnVars, wmVars>>

\* await import('kernel') rejects.
BootImportFailed ==
  /\ bootPc = "import"
  /\ BootTake(Fatal("import failed"))
  /\ UNCHANGED <<api, seed, fsUsable, store, inbox, nextId, accepted, applied, afterFatal, ended, clientVars, termVars, fnVars, wmVars>>

\* await kernelModule.default() resolves; api is assigned and idbGetBytes is called (lines 51-58).
BootWasmReady ==
  /\ bootPc = "wasm"
  /\ bootPc' = "load"
  /\ api' = TRUE
  /\ UNCHANGED <<seed, fsUsable, tree, store, writes, setCalls, inbox, posted, nextId, accepted,
                 applied,
                 afterFatal, ended, clientVars, termVars, fnVars, wmVars>>

\* await kernelModule.default() rejects.
BootWasmFailed ==
  /\ bootPc = "wasm"
  /\ BootTake(Fatal("wasm init failed"))
  /\ UNCHANGED <<api, seed, fsUsable, store, inbox, nextId, accepted, applied, afterFatal, ended, clientVars, termVars, fnVars, wmVars>>

\* idbGetBytes resolves with bytes: restore, then repair (lines 58-59, 389).
BootRestore ==
  /\ bootPc = "load"
  /\ store.present
  /\ store.corrupt \/ ~SeedNeeded(store)
  /\ BootTake(IF store.corrupt THEN Fatal("corrupt snapshot")
              ELSE Repair(1, fs_init_from_bytes(store.bytes)))
  /\ fsUsable' = (fsUsable \/ ~store.corrupt)
  /\ UNCHANGED <<api, seed, store, inbox, nextId, accepted, applied, afterFatal, ended, clientVars, termVars, fnVars, wmVars>>

\* idbGetBytes resolves with nothing: seed every default, then persist (lines 61-383).
BootSeed ==
  /\ bootPc = "load"
  /\ ~store.corrupt
  /\ SeedNeeded(store)
  /\ LET r == SeedRun(fs_init_from_bytes(store.bytes), 1, NoFault)
     IN /\ BootTake(IF r.ok THEN Outcome(r.tree, "seedPersist", TRUE, "none", "")
                    ELSE Repair(1, r.tree))
        /\ seed' = Seeded(r.ran, ~r.ok)
  /\ fsUsable' = TRUE
  /\ UNCHANGED <<api, store, inbox, nextId, accepted, applied, afterFatal, ended, clientVars, termVars, fnVars, wmVars>>

\* idbGetBytes resolves with nothing and a seed operation faults: the fault is
\* caught and logged, and the bootstrap goes on to repair (lines 384-389).
BootSeedFaultFatal ==
  /\ bootPc = "load"
  /\ ~store.corrupt
  /\ SeedNeeded(store)
  /\ \E k \in SeedFaultAt :
       LET r == SeedRun(fs_init_from_bytes(store.bytes), 1, k)
       IN /\ BootTake(Outcome(r.tree, "done", FALSE, "fatal", "seed fault"))
          /\ seed' = Seeded(r.ran, TRUE)
  /\ fsUsable' = TRUE
  /\ UNCHANGED <<api, store, inbox, nextId, accepted, applied, afterFatal, ended, clientVars, termVars, fnVars, wmVars>>
BootSeedFault ==
  /\ bootPc = "load"
  /\ ~store.corrupt
  /\ SeedNeeded(store)
  /\ \E k \in SeedFaultAt :
       LET r == SeedRun(fs_init_from_bytes(store.bytes), 1, k)
       IN /\ BootTake(Repair(1, r.tree))
          /\ seed' = Seeded(r.ran, TRUE)
  /\ fsUsable' = TRUE
  /\ UNCHANGED <<api, store, inbox, nextId, accepted, applied, afterFatal, ended, clientVars, termVars, fnVars, wmVars>>

\* idbGetBytes rejects.
BootLoadFailed ==
  /\ bootPc = "load"
  /\ BootTake(Fatal("idb get failed"))
  /\ UNCHANGED <<api, seed, fsUsable, store, inbox, nextId, accepted, applied, afterFatal, ended, clientVars, termVars, fnVars, wmVars>>

AwaitingPersist == {"seedPersist", "repairPersist1", "repairPersist2", "repairPersist3"}

NextProbe == IF bootPc = "seedPersist" THEN 1
             ELSE IF bootPc = "repairPersist1" THEN 2
             ELSE IF bootPc = "repairPersist2" THEN 3 ELSE 4

\* The bootstrap's idbSetBytes resolves: the snapshot is stored and the bootstrap goes on.
BootPersistDone ==
  /\ bootPc \in AwaitingPersist
  /\ \E w \in writes :
       /\ w.owner = 0
       /\ store' = Stored(w.bytes)
       /\ LET o == Repair(NextProbe, tree)
          IN /\ tree' = o.tree
             /\ bootPc' = o.pc
             /\ writes' = (writes \ {w}) \cup
                            (IF o.dump THEN {Write(0, NoReq, o.tree, NoResult)} ELSE {})
             /\ setCalls' = setCalls + (IF o.dump THEN 1 ELSE 0)
             /\ posted' = IF o.signal = "none" THEN posted
                          ELSE Append(posted, Lifecycle(o.signal, o.error))
  /\ UNCHANGED <<api, seed, fsUsable, inbox, nextId, accepted, applied, afterFatal, ended, clientVars, termVars, fnVars, wmVars>>

\* The bootstrap's idbSetBytes rejects: caught while seeding (line 384), fatal while repairing.
BootPersistFailed ==
  /\ bootPc \in AwaitingPersist
  /\ \E w \in writes :
       /\ w.owner = 0
       /\ LET o == IF bootPc = "seedPersist" THEN Repair(1, tree) ELSE Fatal("idb set failed")
          IN /\ tree' = o.tree
             /\ bootPc' = o.pc
             /\ writes' = (writes \ {w}) \cup
                            (IF o.dump THEN {Write(0, NoReq, o.tree, NoResult)} ELSE {})
             /\ setCalls' = setCalls + (IF o.dump THEN 1 ELSE 0)
             /\ posted' = IF o.signal = "none" THEN posted
                          ELSE Append(posted, Lifecycle(o.signal, o.error))
  /\ UNCHANGED <<api, seed, fsUsable, store, inbox, nextId, accepted, applied, afterFatal, ended, clientVars, termVars, fnVars, wmVars>>

\* The hosting page is reloaded after the bootstrap has ended: a new worker
\* starts on the store the old one left (kernel.worker.ts:40-42).
Restart ==
  /\ bootPc = "done"
  /\ writes = {}
  /\ Len(ended) < MaxRuns - 1
  /\ ended' = Append(ended, [ready |-> ReadyPosted, present |-> store.present, tree |-> tree])
  /\ bootPc' = "import"
  /\ api' = FALSE
  /\ fsUsable' = FALSE
  /\ seed' = NotSeeded
  /\ tree' = EmptyTree
  /\ setCalls' = 0
  /\ inbox' = <<>>
  /\ posted' = <<>>
  /\ applied' = <<>>
  /\ UNCHANGED <<store, writes, nextId, accepted, afterFatal, clientVars, termVars, fnVars, wmVars>>

(***************************************************************************)
(* Request handler, self.onmessage (kernel.worker.ts:442-533).             *)
(***************************************************************************)
\* line 445: a message without id or type is ignored.
IsValidKnownOnly(req) == req.id # 0 /\ req.type \in MutatingTypes \cup ReadOnlyTypes
IsValid(req) == req.id # 0 /\ req.type # ""

\* The cases of the switch that set needsPersist (lines 462-502).
NeedsPersistNoRm(type) == type \in MutatingTypes \ {"fs_rm"}
NeedsPersistAll(type) == type \in MutatingTypes \cup ReadOnlyTypes
NeedsPersist(type) == type \in MutatingTypes

\* The id a response carries (lines 516, 524).
ResponseIdNewest(req) == nextId - 1
ResponseId(req) == req.id

\* The message the handler runs on: events are dispatched in arrival order.
NextIndexNewest(q) == Len(q)
NextIndex(q) == 1

Remove(q, i) == SubSeq(q, 1, i - 1) \o SubSeq(q, i + 1, Len(q))

\* The switch over req.type (lines 457-508).
Exec(req, t) ==
  CASE req.type = "hello" -> FsOk(t, hello(req.data))
    [] req.type = "fs_mkdir" -> fs_mkdir(t, req.path)
    [] req.type = "fs_readdir" -> fs_readdir(t, req.path)
    [] req.type = "fs_write_file" -> fs_write_file(t, req.path, req.data)
    [] req.type = "fs_read_file" -> fs_read_file(t, req.path)
    [] req.type = "fs_stat" -> fs_stat(t, req.path)
    [] req.type = "fs_rm" -> fs_rm(t, req.path)
    [] req.type = "fs_rmdir" -> fs_rmdir(t, req.path)
    [] req.type = "fs_mv" -> fs_mv(t, req.path, req.to)
    [] req.type = "fs_cp" -> fs_cp(t, req.path, req.to)
    [] OTHER -> FsErr(t, "Unknown request type")

Response(req, ok, res, msg) ==
  [kind |-> "response", id |-> ResponseId(req), ok |-> ok,
   result |-> IF ok THEN res ELSE NoResult, error |-> msg, for |-> req]

\* The request types whose case calls a filesystem operation of the kernel.
FsTypes == MutatingTypes \cup (ReadOnlyTypes \ {"hello"})

\* One message event: the handler runs until it returns or awaits persist().
\* A filesystem call made while the kernel holds no tree throws.
Dispatch ==
  /\ inbox # <<>>
  /\ LET i == NextIndex(inbox)
         req == inbox[i]
         r == IF req.type \in FsTypes /\ ~fsUsable
                THEN FsErr(tree, "filesystem not initialized")
              ELSE Exec(req, tree)
     IN /\ inbox' = Remove(inbox, i)
        /\ IF ~IsValid(req)
             THEN UNCHANGED <<tree, writes, setCalls, posted, applied>>
           ELSE IF ~api
             THEN /\ posted' = Append(posted, Response(req, FALSE, NoResult, "Kernel not initialized"))
                  /\ UNCHANGED <<tree, writes, setCalls, applied>>
           ELSE /\ applied' = IF req.type \in FsTypes /\ fsUsable
                                THEN Append(applied, req.id) ELSE applied
                /\ tree' = r.tree
                /\ IF r.ok /\ NeedsPersist(req.type)
                     THEN /\ persist(req.id, req, r.tree, r.result)
                          /\ UNCHANGED posted
                     ELSE /\ posted' = Append(posted, Response(req, r.ok, r.result, r.error))
                          /\ UNCHANGED <<writes, setCalls>>
  /\ UNCHANGED <<bootPc, api, seed, fsUsable, store, nextId, accepted, afterFatal, ended, clientVars, termVars, fnVars, wmVars>>

\* A handler's idbSetBytes resolves: the snapshot is stored and the ok response posted (lines 512-520).
PersistDone ==
  /\ \E w \in writes :
       /\ w.owner # 0
       /\ store' = Stored(w.bytes)
       /\ writes' = writes \ {w}
       /\ posted' = Append(posted, Response(w.req, TRUE, w.result, ""))
  /\ UNCHANGED <<bootPc, api, seed, fsUsable, tree, setCalls, inbox, nextId, accepted, applied, afterFatal, ended, clientVars, termVars, fnVars, wmVars>>

\* A handler's idbSetBytes rejects: the catch posts an error response (lines 521-531).
PersistFailed ==
  /\ \E w \in writes :
       /\ w.owner # 0
       /\ writes' = writes \ {w}
       /\ posted' = Append(posted, Response(w.req, FALSE, NoResult, "idb set failed"))
  /\ UNCHANGED <<bootPc, api, seed, fsUsable, tree, store, setCalls, inbox, nextId, accepted, applied, afterFatal, ended, clientVars, termVars, fnVars, wmVars>>

(***************************************************************************)
(* Senders.                                                                *)
(***************************************************************************)
WithId(k, id) == [id |-> id, type |-> k.type, path |-> k.path, to |-> k.to, data |-> k.data]

\* Messages the handler ignores: one without a type, one without an id.
Malformed(id) == {WithId(NoReq, id), WithId(HelloReq, 0)}

\* KernelClient call: refused while the worker is not ready; otherwise the
\* call is entered in the pending table and the request is sent.
Call(menu, max) ==
  /\ nextId <= max
  /\ clientReady
  /\ \E k \in menu :
       /\ inbox' = Append(inbox, WithId(k, nextId))
  /\ nextId' = nextId + 1
  /\ accepted' = accepted \cup {nextId}
  /\ calls' = calls \cup {nextId}
  /\ pending' = pending \cup {nextId}
  /\ afterFatal' = IF FatalPosted THEN afterFatal \cup {nextId} ELSE afterFatal
  /\ UNCHANGED <<workerVars, ended, delivered, completions, clientReady, termVars, fnVars, wmVars>>

\* A message posted to the worker by a sender that keeps no pending table
\* and does not wait for `ready`.
Post(menu, max) ==
  /\ nextId <= max
  /\ \E m \in {WithId(k, nextId) : k \in menu} \cup Malformed(nextId) :
       /\ inbox' = Append(inbox, m)
       /\ accepted' = IF m.id # 0 /\ m.type # "" THEN accepted \cup {m.id} ELSE accepted
  /\ nextId' = nextId + 1
  /\ afterFatal' = IF FatalPosted THEN afterFatal \cup {nextId} ELSE afterFatal
  /\ UNCHANGED <<workerVars, ended, clientVars, termVars, fnVars, wmVars>>

(***************************************************************************)
(* KernelClient: the handler of the worker's messages.                     *)
(***************************************************************************)
\* What the pending table and the completions become when msg arrives.
ReceiveUnchecked(msg, p, c) ==
  IF msg.kind = "response" /\ msg.id \in DOMAIN c
    THEN [pending |-> p \ {msg.id}, completions |-> [c EXCEPT ![msg.id] = Append(@, msg)]]
  ELSE [pending |-> p, completions |-> c]
Receive(msg, p, c) ==
  IF msg.kind = "response" /\ msg.id \in p
    THEN [pending |-> p \ {msg.id}, completions |-> [c EXCEPT ![msg.id] = Append(@, msg)]]
  ELSE [pending |-> p, completions |-> c]

Times(i) == Cardinality({d \in delivered : d[1] = i})
Duplicates == Cardinality(delivered) - Cardinality({d[1] : d \in delivered})

\* One posted message reaches the client.  Messages arrive in any order, and
\* the client is also shown copies of messages it has already received.
Deliver ==
  /\ \E i \in DOMAIN posted :
       /\ Times(i) = 0 \/ Duplicates < MaxDup
       /\ delivered' = delivered \cup {<<i, Times(i) + 1>>}
       /\ clientReady' = (clientReady \/ posted[i].kind = "ready")
       /\ LET r == Receive(posted[i], pending, completions)
          IN /\ pending' = r.pending
             /\ completions' = r.completions
  /\ UNCHANGED <<workerVars, ended, inbox, nextId, accepted, afterFatal, calls, termVars, fnVars, wmVars>>

(***************************************************************************)
(* Terminal (terminal.ts).  A string of the terminal is the sequence of    *)
(* its characters.                                                         *)
(***************************************************************************)
\* The characters String.prototype.trim and /\s/ take for whitespace.
WhiteSpace == {" ", "\t", "\n"}

\* The characters of cs as one string.
RECURSIVE Str(_)
Str(cs) == IF cs = <<>> THEN "" ELSE Head(cs) \o Str(Tail(cs))

RECURSIVE TrimStart(_)
TrimStart(cs) ==
  IF cs # <<>> /\ Head(cs) \in WhiteSpace THEN TrimStart(Tail(cs)) ELSE cs

RECURSIVE TrimEnd(_)
TrimEnd(cs) ==
  IF cs # <<>> /\ cs[Len(cs)] \in WhiteSpace THEN TrimEnd(SubSeq(cs, 1, Len(cs) - 1)) ELSE cs

\* line.trim() (terminal.ts:48)
trim(cs) == TrimEnd(TrimStart(cs))

\* The loop of tokenize (terminal.ts:457-512) from position i on.
RECURSIVE Scan(_, _, _, _, _)
Scan(input, i, mode, cur, out) ==
  IF i > Len(input) THEN (IF cur # <<>> THEN Append(out, cur) ELSE out)
  ELSE
    LET ch == input[i]
    IN IF mode = "none"
         THEN IF ch \in WhiteSpace
                THEN Scan(input, i + 1, mode, <<>>, IF cur # <<>> THEN Append(out, cur) ELSE out)
              ELSE IF ch = "'" THEN Scan(input, i + 1, "single", cur, out)
              ELSE IF ch = "\"" THEN Scan(input, i + 1, "double", cur, out)
              ELSE Scan(input, i + 1, mode, Append(cur, ch), out)
       ELSE IF mode = "single"
         THEN IF ch = "'" THEN Scan(input, i + 1, "none", cur, out)
              ELSE Scan(input, i + 1, mode, Append(cur, ch), out)
       ELSE IF ch = "\"" THEN Scan(input, i + 1, "none", cur, out)
       ELSE IF ch = "\\"
         THEN LET next == IF i + 1 <= Len(input) THEN <<input[i + 1]>> ELSE <<>>
                  esc == IF next = <<"n">> THEN <<"\n">>
                         ELSE IF next = <<"t">> THEN <<"\t">>
                         ELSE next
              IN Scan(input, i + 2, mode, cur \o esc, out)
       ELSE Scan(input, i + 1, mode, Append(cur, ch), out)

\* tokenize (terminal.ts:451-516)
tokenizeWords(input) ==
  LET Plain(c) == c \notin {"'", "\""}
  IN Scan(SelectSeq(input, Plain), 1, "none", <<>>, <<>>)
tokenize(input) == Scan(input, 1, "none", <<>>, <<>>)

\* cwd.replace(/\/+$/, '') (terminal.ts:521)
RECURSIVE StripSlashes(_)
StripSlashes(cs) ==
  IF cs # <<>> /\ cs[Len(cs)] = "/" THEN StripSlashes(SubSeq(cs, 1, Len(cs) - 1)) ELSE cs

\* resolvePath (terminal.ts:518-522)
resolvePath(dir, p) ==
  IF p = <<>> \/ p = <<".">> THEN dir
  ELSE IF Head(p) = "/" THEN p
  ELSE StripSlashes(dir) \o <<"/">> \o p

\* path.split('/') from position i on: the parts between the slashes.
RECURSIVE SplitFrom(_, _, _, _)
SplitFrom(cs, i, cur, out) ==
  IF i > Len(cs) THEN Append(out, cur)
  ELSE IF cs[i] = "/" THEN SplitFrom(cs, i + 1, <<>>, Append(out, cur))
  ELSE SplitFrom(cs, i + 1, Append(cur, cs[i]), out)

Split(cs) == SplitFrom(cs, 1, <<>>, <<>>)

NonEmpty(part) == part # <<>>

\* The loop of normalizePath over the parts (terminal.ts:528-535).
RECURSIVE Pile(_, _, _)
Pile(parts, i, stack) ==
  IF i > Len(parts) THEN stack
  ELSE IF parts[i] = <<".">> THEN Pile(parts, i + 1, stack)
  ELSE IF parts[i] = <<".", ".">>
    THEN Pile(parts, i + 1, IF stack = <<>> THEN stack ELSE SubSeq(stack, 1, Len(stack) - 1))
  ELSE Pile(parts, i + 1, Append(stack, parts[i]))

\* stack.join(sep)
RECURSIVE Join(_, _)
Join(parts, sep) ==
  IF parts = <<>> THEN <<>>
  ELSE IF Len(parts) = 1 THEN parts[1]
  ELSE parts[1] \o sep \o Join(Tail(parts), sep)

\* normalizePath (terminal.ts:524-538)
normalizePathKeepDots(path) ==
  <<"/">> \o Join(SelectSeq(Split(path), NonEmpty), <<"/">>)
normalizePath(path) ==
  <<"/">> \o Join(Pile(SelectSeq(Split(path), NonEmpty), 1, <<>>), <<"/">>)

\* The path of the tree a path string names to the Storage Capability.
KernelPath(cs) ==
  LET parts == SelectSeq(Split(cs), NonEmpty)
  IN [i \in DOMAIN parts |-> Str(parts[i])]

\* ok and fail (terminal.ts:443-449)
ok(stdout) == [stdout |-> stdout, stderr |-> "", code |-> 0]
fail(stderr) == [stdout |-> "", stderr |-> stderr, code |-> 1]

\* A call of the KernelClient: the request it sends.
Ask(type, path, to, data) == Req(type, KernelPath(path), KernelPath(to), data)

\* The answer to a call on the tree t: the call is rejected when the calls of
\* its type are failing (rej), and is otherwise what the worker's switch does.
Answer(call, t, rej) ==
  IF call.type \in rej THEN FsErr(t, "kernel call failed") ELSE Exec(call, t)

\* What a handler leaves: its result (or the error it threw), the cwd, the
\* tree, the calls it issued, and the hooks of the hosting page it invoked.
Done(res, dir, t, asked) ==
  [res |-> res, threw |-> FALSE, error |-> "", cwd |-> dir, tree |-> t, issued |-> asked,
   hook |-> "", cleared |-> FALSE, reload |-> FALSE]
Thrown(msg, dir, t, asked) ==
  [res |-> ok(""), threw |-> TRUE, error |-> msg, cwd |-> dir, tree |-> t, issued |-> asked,
   hook |-> "", cleared |-> FALSE, reload |-> FALSE]

\* Array.prototype.indexOf and slice(0, end), on 0-based indices.
indexOf(arr, x) ==
  IF \E i \in DOMAIN arr : arr[i] = x
    THEN (CHOOSE i \in DOMAIN arr : arr[i] = x /\ \A j \in 1..(i - 1) : arr[j] # x) - 1
  ELSE -1
sliceTo(arr, end) ==
  LET stop == IF end < 0 THEN Len(arr) + end ELSE end
  IN IF stop <= 0 THEN <<>> ELSE SubSeq(arr, 1, IF stop > Len(arr) THEN Len(arr) ELSE stop)

\* normalizePath(resolvePath(this.cwd, arg))
Target(dir, arg) == normalizePath(resolvePath(dir, arg))

\* The names of the tree in the order Array.prototype.sort gives them
\* (by UTF-16 code unit).
NameOrder ==
  <<"README.txt", "a.txt", "app-config.json", "apps", "b.txt", "bin", "dev", "docs",
    "editor", "etc", "filebrowser", "home", "local", "notes", "opt", "resume.txt",
    "terminal", "textviewer", "theme.css", "tmp", "usr", "var", "welcome.txt">>

\* names.sort()
Sorted(names) == LET In(n) == n \in names IN SelectSeq(NameOrder, In)

\* The entries of a directory in the order readdir returns them.
RECURSIVE Listing(_)
Listing(names) ==
  IF names = {} THEN <<>>
  ELSE LET n == CHOOSE m \in names : TRUE IN <<n>> \o Listing(names \ {n})

\* lines.join('\n')
RECURSIVE JoinLines(_)
JoinLines(lines) ==
  IF lines = <<>> THEN ""
  ELSE IF Len(lines) = 1 THEN lines[1]
  ELSE lines[1] \o "\n" \o JoinLines(Tail(lines))

\* buildTree (terminal.ts:384-440), on the path the kernel is given: the
\* rendered lines and the calls issued.  The connectors of the rendering are
\* in ASCII.  The readdir and the stats that sort the entries (lines 392-408)
\* are answered on the tree t, the stats that render them (lines 412-434) on
\* the tree t2: another caller of the worker may have changed the tree in
\* between.
RECURSIVE buildTree(_, _, _, _, _, _, _)
RECURSIVE buildTreeUnsorted(_, _, _, _, _, _, _)

\* The loop over the sorted entries (terminal.ts:412-434) from entry i on.
RECURSIVE TreeRows(_, _, _, _, _, _)
TreeRows(t2, rej, kpath, prefix, sorted, i) ==
  IF i > Len(sorted) THEN [lines |-> <<>>, calls |-> <<>>]
  ELSE LET e == sorted[i]
           isLast == i = Len(sorted)
           connector == IF isLast THEN "+-- " ELSE "|-- "
           stat == Req("fs_stat", Append(kpath, e), Root, "")
           st == Answer(stat, t2, rej)
           rest == TreeRows(t2, rej, kpath, prefix, sorted, i + 1)
       IN IF st.ok /\ st.result.is_dir
            THEN LET sub == buildTree(t2, t2, rej, "", Append(kpath, e),
                                      prefix \o (IF isLast THEN "    " ELSE "|   "), FALSE)
                 IN [lines |-> <<prefix \o connector \o e \o "/">> \o sub.lines \o rest.lines,
                     calls |-> <<stat>> \o sub.calls \o rest.calls]
          ELSE [lines |-> <<prefix \o connector \o e>> \o rest.lines,
                calls |-> <<stat>> \o rest.calls]

buildTreeUnsorted(t, t2, rej, first, kpath, prefix, isRoot) ==
  LET head == IF isRoot THEN <<first>> ELSE <<>>
      readdir == Req("fs_readdir", kpath, Root, "")
      rd == Answer(readdir, t, rej)
      StatOf(e) == Req("fs_stat", Append(kpath, e), Root, "")
      entries == Listing(rd.result.names)
      rows == TreeRows(t2, rej, kpath, prefix, Sorted(Range(entries)), 1)
  IN IF ~rd.ok THEN [lines |-> head, calls |-> <<readdir>>]
     ELSE [lines |-> head \o rows.lines,
           calls |-> <<readdir>> \o [i \in DOMAIN entries |-> StatOf(entries[i])]
                       \o rows.calls]
buildTree(t, t2, rej, first, kpath, prefix, isRoot) ==
  LET head == IF isRoot THEN <<first>> ELSE <<>>
      readdir == Req("fs_readdir", kpath, Root, "")
      rd == Answer(readdir, t, rej)
      StatOf(e) == Req("fs_stat", Append(kpath, e), Root, "")
      IsDirEntry(e) == LET st == Answer(StatOf(e), t, rej) IN st.ok /\ st.result.is_dir
      entries == Listing(rd.result.names)
      names == Range(entries)
      sorted == Sorted({e \in names : IsDirEntry(e)}) \o Sorted({e \in names : ~IsDirEntry(e)})
      rows == TreeRows(t2, rej, kpath, prefix, sorted, 1)
  IN IF ~rd.ok THEN [lines |-> head, calls |-> <<readdir>>]
     ELSE [lines |-> head \o rows.lines,
           calls |-> <<readdir>> \o [i \in DOMAIN entries |-> StatOf(entries[i])]
                       \o rows.calls]

\* The handlers of registerBuiltins (terminal.ts:70-382): args are the tokens
\* after the command, dir the cwd, t the tree the calls are answered on.
HelpText == "Commands: ..."
ResetWarning ==
  "WARNING: This will permanently delete all files and directories!\n\nIf you are sure, type: sudo reset --confirm"

\* sudo (terminal.ts:112-145): clearDatabase fails when the calls named
\* "clearDatabase" are failing.
cmd_sudoUnconfirmed(args, dir, t, rej) ==
  IF Len(args) = 0 THEN Done(fail("usage: sudo <command> [args...]"), dir, t, <<>>)
  ELSE IF Str(args[1]) = "reset"
    THEN IF "clearDatabase" \in rej
           THEN Done(fail("Failed to reset: " \o "clear failed"), dir, t, <<>>)
         ELSE [Done(ok("Resetting filesystem..."), dir, t, <<>>)
                 EXCEPT !.cleared = TRUE, !.reload = TRUE]
  ELSE Done(fail("sudo: " \o Str(args[1]) \o ": command not found"), dir, t, <<>>)
cmd_sudo(args, dir, t, rej) ==
  IF Len(args) = 0 THEN Done(fail("usage: sudo <command> [args...]"), dir, t, <<>>)
  ELSE IF Str(args[1]) = "reset"
    THEN IF \A i \in DOMAIN args : args[i] # <<"-", "-", "c", "o", "n", "f", "i", "r", "m">>
           THEN Done(fail(ResetWarning), dir, t, <<>>)
         ELSE IF "clearDatabase" \in rej
           THEN Done(fail("Failed to reset: " \o "clear failed"), dir, t, <<>>)
         ELSE [Done(ok("Resetting filesystem..."), dir, t, <<>>)
                 EXCEPT !.cleared = TRUE, !.reload = TRUE]
  ELSE Done(fail("sudo: " \o Str(args[1]) \o ": command not found"), dir, t, <<>>)

\* hello (terminal.ts:147-151): a rejected call is thrown out of the handler.
cmd_hello(args, dir, t, rej) ==
  LET name == IF Str(Join(args, <<" ">>)) = "" THEN "world" ELSE Str(Join(args, <<" ">>))
      call == Req("hello", Root, Root, name)
      r == Answer(call, t, rej)
  IN IF r.ok THEN Done(ok(r.result.data), dir, t, <<call>>)
     ELSE Thrown(r.error, dir, t, <<call>>)

\* open (terminal.ts:155-174)
cmd_open(args, dir, t, rej) ==
  IF Len(args) = 0 THEN Done(fail("usage: open <file>"), dir, t, <<>>)
  ELSE LET filePath == Target(dir, args[1])
           call == Ask("fs_stat", filePath, <<>>, "")
           r == Answer(call, t, rej)
       IN IF ~r.ok
            THEN Done(fail("cannot open '" \o Str(filePath) \o "': " \o r.error), dir, t, <<call>>)
          ELSE IF r.result.is_dir
            THEN Done(fail(Str(filePath) \o " is a directory, not a file"), dir, t, <<call>>)
          ELSE [Done(ok("Opening " \o Str(filePath) \o "..."), dir, t, <<call>>)
                  EXCEPT !.hook = "openFile " \o Str(filePath)]

\* edit (terminal.ts:176-196): the write that creates the file is not in a try.
cmd_editTruncating(args, dir, t, rej) ==
  IF Len(args) = 0 THEN Done(fail("usage: edit <file>"), dir, t, <<>>)
  ELSE LET filePath == Target(dir, args[1])
           stat == Ask("fs_stat", filePath, <<>>, "")
           r == Answer(stat, t, rej)
           write == Ask("fs_write_file", filePath, <<>>, "")
           w == Answer(write, t, rej)
       IN IF r.ok /\ r.result.is_dir
            THEN Done(fail(Str(filePath) \o " is a directory, not a file"), dir, t, <<stat>>)
          ELSE IF ~w.ok THEN Thrown(w.error, dir, t, <<stat, write>>)
          ELSE [Done(ok("Editing " \o Str(filePath) \o "..."), dir, w.tree, <<stat, write>>)
                  EXCEPT !.hook = "openEditor " \o Str(filePath)]
cmd_edit(args, dir, t, rej) ==
  IF Len(args) = 0 THEN Done(fail("usage: edit <file>"), dir, t, <<>>)
  ELSE LET filePath == Target(dir, args[1])
           stat == Ask("fs_stat", filePath, <<>>, "")
           r == Answer(stat, t, rej)
           write == Ask("fs_write_file", filePath, <<>>, "")
           w == Answer(write, t, rej)
       IN IF r.ok /\ r.result.is_dir
            THEN Done(fail(Str(filePath) \o " is a directory, not a file"), dir, t, <<stat>>)
          ELSE IF r.ok
            THEN [Done(ok("Editing " \o Str(filePath) \o "..."), dir, t, <<stat>>)
                    EXCEPT !.hook = "openEditor " \o Str(filePath)]
          ELSE IF ~w.ok THEN Thrown(w.error, dir, t, <<stat, write>>)
          ELSE [Done(ok("Editing " \o Str(filePath) \o "..."), dir, w.tree, <<stat, write>>)
                  EXCEPT !.hook = "openEditor " \o Str(filePath)]

\* cd (terminal.ts:198-213)
cmd_cdEager(args, dir, t, rej) ==
  LET target == IF Len(args) = 0 THEN <<"/">> ELSE args[1]
      newPath == Target(dir, target)
      call == Ask("fs_stat", newPath, <<>>, "")
      r == Answer(call, t, rej)
  IN IF ~r.ok THEN Done(fail("directory not found: " \o Str(newPath)), newPath, t, <<call>>)
     ELSE IF ~r.result.is_dir
       THEN Done(fail("not a directory: " \o Str(newPath)), newPath, t, <<call>>)
     ELSE Done(ok(""), newPath, t, <<call>>)
cmd_cd(args, dir, t, rej) ==
  LET target == IF Len(args) = 0 THEN <<"/">> ELSE args[1]
      newPath == Target(dir, target)
      call == Ask("fs_stat", newPath, <<>>, "")
      r == Answer(call, t, rej)
  IN IF ~r.ok THEN Done(fail("directory not found: " \o Str(newPath)), dir, t, <<call>>)
     ELSE IF ~r.result.is_dir
       THEN Done(fail("not a directory: " \o Str(newPath)), dir, t, <<call>>)
     ELSE Done(ok(""), newPath, t, <<call>>)

\* `args[0] ? normalizePath(resolvePath(this.cwd, args[0])) : this.cwd`
ListTarget(args, dir) ==
  IF Len(args) > 0 /\ args[1] # <<>> THEN Target(dir, args[1]) ELSE dir

\* ls (terminal.ts:215-228)
cmd_ls(args, dir, t, rej) ==
  LET call == Ask("fs_readdir", ListTarget(args, dir), <<>>, "")
      r == Answer(call, t, rej)
  IN IF ~r.ok THEN Done(fail(r.error), dir, t, <<call>>)
     ELSE Done(ok(JoinLines(Listing(r.result.names))), dir, t, <<call>>)

\* tree (terminal.ts:230-240) while the tree changes from t to t2.
cmd_treeStrict(args, dir, t, t2, rej) ==
  LET target == ListTarget(args, dir)
      b == buildTree(t, t2, rej, Str(target), KernelPath(target), "", TRUE)
  IN IF \E i \in DOMAIN b.calls : ~Answer(b.calls[i], t2, rej).ok
       THEN Done(fail("kernel call failed"), dir, t2, b.calls)
     ELSE Done(ok(JoinLines(b.lines)), dir, t2, b.calls)
cmd_treeAmid(args, dir, t, t2, rej) ==
  LET target == ListTarget(args, dir)
      b == buildTree(t, t2, rej, Str(target), KernelPath(target), "", TRUE)
  IN Done(ok(JoinLines(b.lines)), dir, t2, b.calls)

\* tree (terminal.ts:230-240)
cmd_tree(args, dir, t, rej) == cmd_treeAmid(args, dir, t, t, rej)

\* mkdir, rm, rmdir (terminal.ts:242-256, 299-329): one path, one call.
cmd_onePath(usage, type, args, dir, t, rej) ==
  IF Len(args) = 0 THEN Done(fail(usage), dir, t, <<>>)
  ELSE LET call == Ask(type, Target(dir, args[1]), <<>>, "")
           r == Answer(call, t, rej)
       IN IF r.ok THEN Done(ok(""), dir, r.tree, <<call>>)
          ELSE Done(fail(r.error), dir, t, <<call>>)

\* cat (terminal.ts:258-273)
cmd_cat(args, dir, t, rej) ==
  IF Len(args) = 0 THEN Done(fail("usage: cat <file>"), dir, t, <<>>)
  ELSE LET call == Ask("fs_read_file", Target(dir, args[1]), <<>>, "")
           r == Answer(call, t, rej)
       IN IF r.ok THEN Done(ok(r.result.data), dir, t, <<call>>)
          ELSE Done(fail(r.error), dir, t, <<call>>)

\* echo (terminal.ts:275-297): the test of `redirectIndex === -1` is commented out.
cmd_echo(args, dir, t, rej) ==
  LET redirectIndex == indexOf(args, <<">">>)
  IN IF redirectIndex = Len(args) - 1
       THEN Done(fail("usage: echo <text> > <file>"), dir, t, <<>>)
     ELSE LET text == Str(Join(sliceTo(args, redirectIndex), <<" ">>))
              call == Ask("fs_write_file", Target(dir, args[redirectIndex + 2]), <<>>, text)
              r == Answer(call, t, rej)
          IN IF r.ok THEN Done(ok(""), dir, r.tree, <<call>>)
             ELSE Done(fail(r.error), dir, t, <<call>>)

\* mv, cp (terminal.ts:331-363): two paths, one call.
cmd_twoPaths(usage, type, args, dir, t, rej) ==
  IF Len(args) < 2 THEN Done(fail(usage), dir, t, <<>>)
  ELSE LET call == Ask(type, Target(dir, args[1]), Target(dir, args[2]), "")
           r == Answer(call, t, rej)
       IN IF r.ok THEN Done(ok(""), dir, r.tree, <<call>>)
          ELSE Done(fail(r.error), dir, t, <<call>>)

\* `${stat.size}`: the decimal digits of a size.
RECURSIVE Digits(_)
Digits(n) ==
  LET d == <<"0", "1", "2", "3", "4", "5", "6", "7", "8", "9">>
  IN IF n < 10 THEN d[n + 1] ELSE Digits(n \div 10) \o d[(n % 10) + 1]

\* stat (terminal.ts:365-381)
cmd_stat(args, dir, t, rej) ==
  IF Len(args) = 0 THEN Done(fail("usage: stat <path>"), dir, t, <<>>)
  ELSE LET path == Target(dir, args[1])
           call == Ask("fs_stat", path, <<>>, "")
           r == Answer(call, t, rej)
       IN IF r.ok
            THEN Done(ok(JoinLines(<<"Path: " \o Str(path),
                                     "Type: " \o (IF r.result.is_dir THEN "directory" ELSE "file"),
                                     "Size: " \o Digits(r.result.size) \o " bytes">>)),
                      dir, t, <<call>>)
          ELSE Done(fail(r.error), dir, t, <<call>>)

\* The names of the handler table.
Commands ==
  {"help", "clear", "reset", "sudo", "hello", "pwd", "open", "edit", "cd", "ls", "tree",
   "mkdir", "cat", "echo", "rm", "rmdir", "mv", "cp", "stat"}

\* handler(args), for the handler registered under cmd.
Handle(cmd, args, dir, t, rej, clearCode) ==
  CASE cmd = "help" -> Done(ok(HelpText), dir, t, <<>>)
    [] cmd = "clear" -> Done(ok(clearCode), dir, t, <<>>)
    [] cmd = "reset" -> Done(fail("Permission denied. Use \"sudo reset\" to reset the filesystem."),
                            dir, t, <<>>)
    [] cmd = "sudo" -> cmd_sudo(args, dir, t, rej)
    [] cmd = "hello" -> cmd_hello(args, dir, t, rej)
    [] cmd = "pwd" -> Done(ok(Str(dir)), dir, t, <<>>)
    [] cmd = "open" -> cmd_open(args, dir, t, rej)
    [] cmd = "edit" -> cmd_edit(args, dir, t, rej)
    [] cmd = "cd" -> cmd_cd(args, dir, t, rej)
    [] cmd = "ls" -> cmd_ls(args, dir, t, rej)
    [] cmd = "tree" -> cmd_tree(args, dir, t, rej)
    [] cmd = "mkdir" -> cmd_onePath("usage: mkdir <path>", "fs_mkdir", args, dir, t, rej)
    [] cmd = "cat" -> cmd_cat(args, dir, t, rej)
    [] cmd = "echo" -> cmd_echo(args, dir, t, rej)
    [] cmd = "rm" -> cmd_onePath("usage: rm <file>", "fs_rm", args, dir, t, rej)
    [] cmd = "rmdir" -> cmd_onePath("usage: rmdir <directory>", "fs_rmdir", args, dir, t, rej)
    [] cmd = "mv" -> cmd_twoPaths("usage: mv <from> <to>", "fs_mv", args, dir, t, rej)
    [] cmd = "cp" -> cmd_twoPaths("usage: cp <from> <to>", "fs_cp", args, dir, t, rej)
    [] cmd = "stat" -> cmd_stat(args, dir, t, rej)

\* Terminal.exec after the line is trimmed and tokenized (terminal.ts:49-68):
\* what the call returns and leaves.  hist is the history; the try/catch
\* around the handler turns a thrown error into a failure.
Uncaught(h) == h
Caught(h) == IF h.threw THEN [h EXCEPT !.threw = FALSE, !.res = fail(h.error)] ELSE h
dispatch(trimmed, tokens, hist, dir, t, rej, clearCode) ==
  IF trimmed = <<>> THEN [history |-> hist, out |-> Done(ok(""), dir, t, <<>>)]
  ELSE IF Len(tokens) = 0
    THEN [history |-> Append(hist, trimmed), out |-> Done(ok(""), dir, t, <<>>)]
  ELSE IF Str(tokens[1]) \notin Commands
    THEN [history |-> Append(hist, trimmed),
          out |-> Done(fail("command not found: " \o Str(tokens[1])), dir, t, <<>>)]
  ELSE [history |-> Append(hist, trimmed),
        out |-> Caught(Handle(Str(tokens[1]), Tail(tokens), dir, t, rej, clearCode))]

\* Terminal.exec (terminal.ts:47-68)
execUntrimmed(line, hist, dir, t, rej, clearCode) ==
  dispatch(line, tokenize(trim(line)), hist, dir, t, rej, clearCode)
exec(line, hist, dir, t, rej, clearCode) ==
  dispatch(trim(line), tokenize(trim(line)), hist, dir, t, rej, clearCode)

\* The lines typed in the model: blank lines, lines to trim, quotes, every
\* command, with paths that exist, that do not, relative and unnormalized.
LineMenu ==
  { <<" ", "\t", " ">>,
    <<" ", " ", "p", "w", "d", " ">>,
    <<"'", "'">>,
    <<"c", "d">>,
    <<"c", "d", " ", "/", "d", "o", "c", "s">>,
    <<"c", "d", " ", ".", ".">>,
    <<"c", "d", " ", "/", "n", "o", "p", "e">>,
    <<"c", "d", " ", "/", "d", "o", "c", "s", "/", "a", ".", "t", "x", "t">>,
    <<"c", "d", " ", "d", "o", "c", "s", "/", ".", ".", "/", "d", "o", "c", "s", "/", ".", "/">>,
    <<"e", "c", "h", "o">>,
    <<"e", "c", "h", "o", " ", "\"", "a", " ", "b", "\"", " ", "c", " ", ">", " ", "/", "d", "o", "c", "s", "/", "b", ".", "t", "x", "t">>,
    <<"e", "c", "h", "o", " ", "h", "i", " ", ">">>,
    <<"e", "c", "h", "o", " ", "/", "d", "o", "c", "s", "/", "b", ".", "t", "x", "t">>,
    <<"e", "c", "h", "o", " ", "/", "d", "o", "c", "s", "/", "b", ".", "t", "x", "t", " ", "x">>,
    <<"n", "o", "s", "u", "c", "h", " ", "x">>,
    <<"h", "e", "l", "l", "o", " ", "b", "o", "b">>,
    <<"e", "d", "i", "t", " ", "/", "d", "o", "c", "s", "/", "b", ".", "t", "x", "t">>,
    <<"e", "d", "i", "t", " ", "/", "d", "o", "c", "s">>,
    <<"o", "p", "e", "n", " ", "/", "d", "o", "c", "s", "/", "a", ".", "t", "x", "t">>,
    <<"o", "p", "e", "n", " ", "/", "d", "o", "c", "s">>,
    <<"m", "k", "d", "i", "r", " ", "/", "d", "o", "c", "s">>,
    <<"r", "m", " ", "/", "d", "o", "c", "s", "/", "a", ".", "t", "x", "t">>,
    <<"r", "m", "d", "i", "r", " ", "/", "d", "o", "c", "s">>,
    <<"m", "v", " ", "/", "d", "o", "c", "s", "/", "a", ".", "t", "x", "t", " ", "/", "d", "o", "c", "s", "/", "b", ".", "t", "x", "t">>,
    <<"c", "p", " ", "/", "d", "o", "c", "s", "/", "a", ".", "t", "x", "t">>,
    <<"c", "a", "t", " ", "/", "d", "o", "c", "s", "/", "a", ".", "t", "x", "t">>,
    <<"s", "t", "a", "t", " ", "a", ".", "t", "x", "t">>,
    <<"l", "s">>,
    <<"t", "r", "e", "e", " ", "/", "d", "o", "c", "s">>,
    <<"h", "e", "l", "p">>,
    <<"c", "l", "e", "a", "r">>,
    <<"r", "e", "s", "e", "t">>,
    <<"s", "u", "d", "o", " ", "r", "e", "s", "e", "t">>,
    <<"s", "u", "d", "o", " ", "r", "e", "s", "e", "t", " ", "-", "-", "c", "o", "n", "f", "i", "r", "m">>,
    <<"s", "u", "d", "o", " ", "l", "s">> }

\* The cwd option of the constructor; NoOption is an absent option.
NoOption == <<"<", "a", "b", "s", "e", "n", "t", ">">>
CwdOptions ==
  { NoOption,
    <<>>,
    <<"/", "d", "o", "c", "s">>,
    <<"d", "o", "c", "s", "/">>,
    <<"/", "/", "d", "o", "c", "s", "/", ".", "/", "x", "/", ".", ".">>,
    <<".", ".">>,
    <<"/", "n", "o", "p", "e">> }

\* defaultAppConfig.filesystem.rootPath
RootPath == <<"/">>

\* The kinds of call that fail during the exec of a line: none, the stats
\* its command makes, or every other call it makes.
RejMenu(line) ==
  LET tokens == tokenize(trim(line))
      cmd == IF tokens = <<>> THEN "" ELSE Str(tokens[1])
  IN {{}} \cup (IF cmd \in {"open", "edit", "cd", "tree", "stat"} THEN {{"fs_stat"}} ELSE {})
          \cup (IF cmd \in {"hello", "edit", "ls", "tree", "mkdir", "cat", "echo", "rm", "rmdir",
                             "mv", "cp", "sudo"}
                  THEN {{"hello", "fs_mkdir", "fs_readdir", "fs_write_file", "fs_read_file",
                         "fs_rm", "fs_rmdir", "fs_mv", "fs_cp", "clearDatabase"}}
                ELSE {})

\* defaultAppConfig.terminal.clearScreenCode
ClearScreenCode == "<clear>"

\* The result of the last exec (threw: the call threw instead of returning),
\* the calls it made, the kinds of call that failed during it and the hook it
\* called.
Last(out, rej) ==
  [res |-> out.res, threw |-> out.threw, issued |-> out.issued, rej |-> rej, hook |-> out.hook]
NoLast == [res |-> ok(""), threw |-> FALSE, issued |-> <<>>, rej |-> {}, hook |-> ""]

\* Terminal.constructor (terminal.ts:27-33)
constructRaw(opt) == IF opt = NoOption THEN RootPath ELSE opt
construct(opt) == normalizePath(IF opt = NoOption THEN RootPath ELSE opt)

\* The mutating calls among the calls that were answered ok.
RECURSIVE Stores(_, _, _)
Stores(asked, t, rej) ==
  IF asked = <<>> THEN 0
  ELSE (IF Head(asked).type \in MutatingTypes /\ Answer(Head(asked), t, rej).ok THEN 1 ELSE 0)
         + Stores(Tail(asked), t, rej)

\* One call of exec, with every call of the KernelClient it makes answered
\* before the next line is typed: a mutation the worker answers ok is in the
\* store.
ExecOf(menu, max) ==
  /\ page = "live"
  /\ Len(inputs) < max
  /\ \E line \in menu : \E rej \in RejMenu(line) :
     \E e \in {exec(line, history, cwd, tree, rej, ClearScreenCode)} :
     \E n \in {Stores(e.out.issued, tree, rej)} :
          /\ inputs' = Append(inputs, line)
          /\ history' = e.history
          /\ cwd' = e.out.cwd
          /\ tree' = e.out.tree
          /\ last' = Last(e.out, rej)
          /\ setCalls' = setCalls + n
          /\ store' = IF e.out.cleared THEN Absent
                      ELSE IF n > 0 THEN Stored(fs_dump_state(e.out.tree)) ELSE store
          /\ page' = IF e.out.reload THEN "reloading" ELSE page
  /\ UNCHANGED <<bootPc, api, fsUsable, seed, writes, inbox, posted, nextId, accepted, applied,
                 afterFatal, ended, clientVars, fnVars, wmVars>>

ExecLine == ExecOf(LineMenu, MaxExecs)

\* One call of exec with a `tree` line, while another caller of the worker
\* may have a request answered between the calls of buildTree that sort the
\* entries and those that render them.  The worker persists the other
\* caller's mutation as any other.
ExecTree ==
  /\ page = "live"
  /\ Len(inputs) < MaxExecs
  /\ \E line \in {<<"t", "r", "e", "e">>,
                  <<"t", "r", "e", "e", " ", "/", "u", "s", "r">>,
                  <<"t", "r", "e", "e", " ", "/", "d", "o", "c", "s">>,
                  <<"t", "r", "e", "e", " ", "/", "d", "o", "c", "s", "/", "a", ".", "t", "x", "t">>} :
     \E rej \in {{}, {"fs_stat"}, {"fs_readdir"}} :
     \E other \in {NoReq,
                   Req("fs_rmdir", <<"usr", "local">>, Root, ""),
                   Req("fs_rmdir", <<"tmp">>, Root, ""),
                   Req("fs_write_file", <<"a.txt">>, Root, "yo")} :
     \E o \in {IF other = NoReq THEN FsOk(tree, NoResult) ELSE Exec(other, tree)} :
     \E e \in {exec(line, history, cwd, tree, rej, ClearScreenCode)} :
     \E out \in {cmd_treeAmid(Tail(tokenize(trim(line))), cwd, tree, o.tree, rej)} :
          /\ inputs' = Append(inputs, line)
          /\ history' = e.history
          /\ cwd' = out.cwd
          /\ tree' = out.tree
          /\ last' = Last(out, rej)
          /\ setCalls' = IF other # NoReq /\ o.ok THEN setCalls + 1 ELSE setCalls
          /\ store' = IF other # NoReq /\ o.ok THEN Stored(fs_dump_state(o.tree)) ELSE store
  /\ UNCHANGED <<bootPc, api, fsUsable, seed, writes, inbox, posted, nextId, accepted, applied,
                 afterFatal, ended, clientVars, page, fnVars, wmVars>>

(***************************************************************************)
(* Window manager: AppContent (App.tsx) with Window and StatusBar.  React  *)
(* runs one event handler at a time and renders before the next event, so  *)
(* a handler reads the `windows` and `focusedWindow` of the current state   *)
(* (W, F); s is the state the updates queued so far in the event produce.  *)
(* Window ids are 1, 2, ... in the order randomUUID gives them out; 0 is    *)
(* `undefined`.  An absent minimized or maximized field is FALSE (falsy).   *)
(***************************************************************************)
Undefined == 0

WindowItem(id) == [id |-> id, minimized |-> FALSE, maximized |-> FALSE]

\* prev.filter((w) => w.id !== id)
Without(ws, id) == SelectSeq(ws, LAMBDA w : w.id # id)

\* ws.filter((w) => !w.minimized)
Shown(ws) == SelectSeq(ws, LAMBDA w : ~w.minimized)

\* ws[0]?.id || undefined
FirstId(ws) == IF ws = <<>> THEN Undefined ELSE ws[1].id

\* useState initial values (App.tsx:20-23)
Mounted ==
  /\ windows = <<WindowItem(1)>>
  /\ focusedWindow = 1
  /\ created = 1

\* closeWindow (App.tsx:91-97)
closeWindow(W, F, s, id) ==
  [windows |-> Without(s.windows, id),
   focused |-> IF F = id THEN FirstId(Without(W, id)) ELSE s.focused]

\* setWindowMinimized (App.tsx:99-106)
setWindowMinimized(W, F, s, id, minimized) ==
  [windows |-> [i \in DOMAIN s.windows |->
                  IF s.windows[i].id = id THEN [s.windows[i] EXCEPT !.minimized = minimized]
                  ELSE s.windows[i]],
   focused |-> IF minimized /\ F = id THEN FirstId(Shown(Without(W, id))) ELSE s.focused]

\* setWindowMaximized (App.tsx:108-121)
setWindowMaximizedOnly(s, id, maximized) ==
  [windows |-> [i \in DOMAIN s.windows |->
                  IF s.windows[i].id = id THEN [s.windows[i] EXCEPT !.maximized = maximized]
                  ELSE s.windows[i]],
   focused |-> s.focused]
setWindowMaximized(s, id, maximized) ==
  [windows |-> [i \in DOMAIN s.windows |->
                  IF s.windows[i].id = id THEN [s.windows[i] EXCEPT !.maximized = maximized]
                  ELSE IF maximized THEN [s.windows[i] EXCEPT !.maximized = FALSE]
                  ELSE s.windows[i]],
   focused |-> s.focused]

\* The state after an event whose queued updates produce s.
Rendered(s) ==
  /\ windows' = s.windows
  /\ focusedWindow' = s.focused
  /\ UNCHANGED <<workerVars, inbox, nextId, accepted, afterFatal, ended, clientVars, termVars,
                 fnVars, created>>

Now == [windows |-> windows, focused |-> focusedWindow]

\* handleKeyDown, Alt+Enter (App.tsx:56-66): a new window, focused.
OpenWindow ==
  /\ created < MaxWindows
  /\ created' = created + 1
  /\ windows' = Append(windows, WindowItem(created + 1))
  /\ focusedWindow' = created + 1
  /\ UNCHANGED <<workerVars, inbox, nextId, accepted, afterFatal, ended, clientVars, termVars,
                 fnVars>>

\* handleKeyDown, Alt+Shift+Q (App.tsx:68-84): the focused window is closed
\* and the first remaining window that is not minimized gets the focus.
CloseFocused ==
  /\ focusedWindow # Undefined
  /\ Rendered([windows |-> Without(windows, focusedWindow),
               focused |-> FirstId(Shown(Without(windows, focusedWindow)))])

\* Window, a click on the window (Window.tsx onClick={onFocus}, App.tsx:133).
ClickWindow ==
  \E i \in DOMAIN windows : Rendered([Now EXCEPT !.focused = windows[i].id])

\* Window, the maximize button: setWindowMaximized(id, !maximized).
ClickMaximize ==
  \E i \in DOMAIN windows :
    Rendered(setWindowMaximized(Now, windows[i].id, ~windows[i].maximized))

\* Window, the minimize button: setWindowMinimized(id, true).
ClickMinimize ==
  \E i \in DOMAIN windows :
    Rendered(setWindowMinimized(windows, focusedWindow, Now, windows[i].id, TRUE))

\* Window, the close button: closeWindow(id).
ClickClose ==
  \E i \in DOMAIN windows :
    Rendered(closeWindow(windows, focusedWindow, Now, windows[i].id))

\* StatusBar, a click on the task item of a window (StatusBar.tsx:31-46).
ClickTaskItem ==
  \E i \in DOMAIN windows :
    LET win == windows[i]
        maxed == SelectSeq(windows, LAMBDA w : w.maximized)
        s1 == IF maxed # <<>> THEN setWindowMaximized(Now, maxed[1].id, FALSE) ELSE Now
    IN Rendered(IF win.id # focusedWindow
                  THEN [(IF win.minimized
                           THEN setWindowMinimized(windows, focusedWindow, s1, win.id, FALSE)
                         ELSE s1) EXCEPT !.focused = win.id]
                ELSE setWindowMinimized(windows, focusedWindow, s1, win.id, TRUE))

(***************************************************************************)
(* Specifications.                                                         *)
(***************************************************************************)
Start(stores, kernels) ==
  /\ bootPc = "import"
  /\ api = FALSE
  /\ fsUsable \in kernels
  /\ seed = NotSeeded
  /\ ended = <<>>
  /\ tree = EmptyTree
  /\ store \in stores
  /\ writes = {}
  /\ setCalls = 0
  /\ inbox = <<>>
  /\ posted = <<>>
  /\ nextId = 1
  /\ accepted = {}
  /\ applied = <<>>
  /\ afterFatal = {}
  /\ delivered = {}
  /\ calls = {}
  /\ pending = {}
  /\ completions = [i \in Ids |-> <<>>]
  /\ clientReady = FALSE
  /\ cwd = RootPath
  /\ history = <<>>
  /\ inputs = <<>>
  /\ last = NoLast
  /\ page = "live"
  /\ given = <<>>
  /\ got = <<>>
  /\ Mounted

Serve ==
  \/ Dispatch
  \/ PersistDone
  \/ PersistFailed

\* The worker started on a stored snapshot, serving senders that post to it directly.
Init == Start({Stored(fs_dump_state(UserTree)), Stored(fs_dump_state(OldTree))}, {FALSE})

Next ==
  \/ BootImported
  \/ BootWasmReady
  \/ BootRestore
  \/ BootPersistDone
  \/ BootPersistFailed
  \/ Serve
  \/ Post(ReqMenu, MaxReqs)

Spec == Init /\ [][Next]_vars

\* The requests of the bootstrap specification: a caller may also remove a
\* well-known path.
BootMenu == ReqMenu \cup {Req("fs_rm", ThemePath, Root, "")}

\* Every path through the bootstrap, with few requests.
BootInit == Start(InitialStores, BOOLEAN)

BootNext ==
  \/ BootImported
  \/ BootImportFailed
  \/ BootWasmReady
  \/ BootWasmFailed
  \/ BootRestore
  \/ BootSeed
  \/ BootSeedFault
  \/ BootLoadFailed
  \/ BootPersistDone
  \/ BootPersistFailed
  \/ Serve
  \/ Post(BootMenu, MaxBootReqs)

BootSpec == BootInit /\ [][BootNext]_vars

\* The bootstrap alone, run again on the store the run before left.
RebootInit == Start(InitialStores, {FALSE})

RebootNext ==
  \/ BootImported
  \/ BootImportFailed
  \/ BootWasmReady
  \/ BootWasmFailed
  \/ BootRestore
  \/ BootSeed
  \/ BootSeedFault
  \/ BootLoadFailed
  \/ BootPersistDone
  \/ BootPersistFailed
  \/ Restart

RebootSpec == RebootInit /\ [][RebootNext]_vars

\* A Terminal constructed on a worker that is ready on a user's tree; the
\* terminal is the only caller.
TermInit ==
  /\ bootPc = "done"
  /\ api = TRUE
  /\ fsUsable = TRUE
  /\ seed = NotSeeded
  /\ ended = <<>>
  /\ tree = UserTree
  /\ store = Stored(fs_dump_state(UserTree))
  /\ writes = {}
  /\ setCalls = 0
  /\ inbox = <<>>
  /\ posted = <<Lifecycle("ready", "")>>
  /\ nextId = 1
  /\ accepted = {}
  /\ applied = <<>>
  /\ afterFatal = {}
  /\ delivered = {<<1, 1>>}
  /\ calls = {}
  /\ pending = {}
  /\ completions = [i \in Ids |-> <<>>]
  /\ clientReady = TRUE
  /\ \E opt \in CwdOptions : cwd = construct(opt)
  /\ history = <<>>
  /\ inputs = <<>>
  /\ last = NoLast
  /\ page = "live"
  /\ given = <<>>
  /\ got = <<>>
  /\ Mounted

TermSpec == TermInit /\ [][ExecLine]_vars

\* A Terminal on which `tree` lines are typed while another caller mutates.
TreeSpec == TermInit /\ [][ExecTree]_vars

\* The lines of a user who removes well-known paths: the files of /etc, /etc
\* itself, /apps/editor and its file.
RemovalMenu ==
  { <<"r", "m", " ", "/", "e", "t", "c", "/", "a", "p", "p", "-", "c", "o", "n", "f", "i", "g", ".", "j", "s", "o", "n">>,
    <<"r", "m", " ", "/", "e", "t", "c", "/", "t", "h", "e", "m", "e", ".", "c", "s", "s">>,
    <<"r", "m", "d", "i", "r", " ", "/", "e", "t", "c">>,
    <<"m", "v", " ", "/", "e", "t", "c", "/", "t", "h", "e", "m", "e", ".", "c", "s", "s", " ", "/", "d", "o", "c", "s", "/", "b", ".", "t", "x", "t">>,
    <<"r", "m", " ", "/", "a", "p", "p", "s", "/", "e", "d", "i", "t", "o", "r", "/", "R", "E", "A", "D", "M", "E", ".", "t", "x", "t">>,
    <<"r", "m", "d", "i", "r", " ", "/", "a", "p", "p", "s", "/", "e", "d", "i", "t", "o", "r">> }

\* A user types removals on a ready worker, then the page is reloaded and the
\* new worker starts on the snapshot the commands left; the store and the
\* kernel do not fault.  No line is typed once the page was reloaded.
UserNext ==
  \/ (ended = <<>> /\ ExecOf(RemovalMenu, MaxRemovals))
  \/ Restart
  \/ BootImported
  \/ BootWasmReady
  \/ BootRestore
  \/ BootPersistDone

UserInit == TermInit /\ cwd = RootPath

UserSpec == UserInit /\ [][UserNext]_vars

\* A Terminal constructed on a cwd that names a directory of the tree.
DirInit == TermInit /\ IsDir(tree, KernelPath(cwd))

DirSpec == DirInit /\ [][ExecLine]_vars

\* A function of terminal.ts about to be called: resolvePath and
\* normalizePath on a cwd a Terminal can have and a path argument over the
\* characters '/', '.' and 'x', or tokenize on an input over a space, the two
\* quotes, the backslash and 'a'.
FnInit ==
  /\ bootPc = "done"
  /\ api = TRUE
  /\ fsUsable = TRUE
  /\ seed = NotSeeded
  /\ ended = <<>>
  /\ tree = UserTree
  /\ store = Stored(fs_dump_state(UserTree))
  /\ writes = {}
  /\ setCalls = 0
  /\ inbox = <<>>
  /\ posted = <<Lifecycle("ready", "")>>
  /\ nextId = 1
  /\ accepted = {}
  /\ applied = <<>>
  /\ afterFatal = {}
  /\ delivered = {<<1, 1>>}
  /\ calls = {}
  /\ pending = {}
  /\ completions = [i \in Ids |-> <<>>]
  /\ clientReady = TRUE
  /\ cwd = RootPath
  /\ history = <<>>
  /\ inputs = <<>>
  /\ last = NoLast
  /\ page = "live"
  /\ given \in
       {<<"resolvePath", c, p>> :
          c \in {<<"/">>, <<"/", "x">>, <<"/", "x", "/", "x">>, <<"/", ".", "x">>},
          p \in UNION {[1..n -> {"/", ".", "x"}] : n \in 0..MaxPathLen}}
       \cup {<<"tokenize", i>> :
               i \in UNION {[1..n -> {" ", "'", "\"", "\\", "a"}] : n \in 0..MaxInputLen}}
  /\ got = <<>>
  /\ Mounted

\* normalizePath(resolvePath(cwd, p)) returns.
CallResolvePath ==
  /\ given[1] = "resolvePath"
  /\ got = <<>>
  /\ got' = <<normalizePath(resolvePath(given[2], given[3]))>>
  /\ UNCHANGED <<workerVars, inbox, nextId, accepted, afterFatal, ended, clientVars, termVars,
                 given, wmVars>>

\* tokenize(input) returns.
CallTokenize ==
  /\ given[1] = "tokenize"
  /\ got = <<>>
  /\ got' = <<tokenize(given[2])>>
  /\ UNCHANGED <<workerVars, inbox, nextId, accepted, afterFatal, ended, clientVars, termVars,
                 given, wmVars>>

FnSpec == FnInit /\ [][CallResolvePath \/ CallTokenize]_vars

WmNext ==
  \/ OpenWindow
  \/ CloseFocused
  \/ ClickWindow
  \/ ClickMaximize
  \/ ClickMinimize
  \/ ClickClose
  \/ ClickTaskItem

\* The desktop after mounting, with a ready worker that nothing calls.
WmInit == TermInit /\ cwd = RootPath

WmSpec == WmInit /\ [][WmNext]_vars

\* The worker started on a user's snapshot, with a KernelClient and other senders.
RpcInit == Start({Stored(fs_dump_state(UserTree))}, {FALSE})

RpcNext ==
  \/ BootImported
  \/ BootWasmReady
  \/ BootRestore
  \/ Serve
  \/ Post(RpcMenu, MaxCalls)
  \/ Call(RpcMenu, MaxCalls)
  \/ Deliver

RpcSpec == RpcInit /\ [][RpcNext]_vars

(***************************************************************************)
(* Properties.                                                             *)
(***************************************************************************)
\* The message a step posts, when it posts one.
Posts == Len(posted') = Len(posted) + 1
Posting == posted'[Len(posted')]

\* A step in which the handler starts on the oldest message of the inbox.
Begins == inbox # <<>> /\ inbox' = Tail(inbox)

\* The snapshot st, read back, shows the effect of the mutating request req.
Reflects(req, st) ==
  /\ st.present
  /\ ~st.corrupt
  /\ LET t == fs_init_from_bytes(st.bytes)
     IN CASE req.type = "fs_mkdir" -> IsDir(t, req.path)
          [] req.type = "fs_write_file" -> IsFile(t, req.path) /\ t[req.path] = req.data
          [] req.type = "fs_rm" -> ~Exists(t, req.path)
          [] req.type = "fs_rmdir" -> ~Exists(t, req.path)
          [] req.type = "fs_mv" -> ~Exists(t, req.path) /\ Exists(t, req.to)
          [] req.type = "fs_cp" -> IsFile(t, req.to) /\ t[req.to] = t[req.path]
          [] OTHER -> FALSE

OkResponses(types) ==
  {m \in Range(posted) : m.kind = "response" /\ m.ok /\ m.for.type \in types}
ErrResponses(types) ==
  {m \in Range(posted) : m.kind = "response" /\ ~m.ok /\ m.for.type \in types}

\* C1: whenever the worker posts an ok=true response to a mutating request,
\* the Durable Byte Store holds, at that moment, a snapshot that shows the
\* mutation: the persistence write completed before the response.
C1_DurableBeforeOk ==
  [][(Posts /\ Posting.kind = "response" /\ Posting.ok /\ Posting.for.type \in MutatingTypes)
       => Reflects(Posting.for, store')]_vars

\* C1 witness: a move and another mutation have both been answered ok=true.
C1_Witness ==
  /\ OkResponses({"fs_mv"}) # {}
  /\ OkResponses(MutatingTypes \ {"fs_mv"}) # {}

\* C2: the handling of a read-only request (hello, fs_readdir, fs_read_file,
\* fs_stat) leaves the store, the number of idbSetBytes calls and the writes
\* in flight as they were, whether the request succeeds or fails.
C2_ReadOnlyNeverWrites ==
  [][(Begins /\ Head(inbox).type \in ReadOnlyTypes)
       => (store' = store /\ setCalls' = setCalls /\ writes' = writes)]_vars

\* C2 witness: read-only requests have succeeded and failed, and idbSetBytes
\* was never called.
C2_Witness ==
  /\ setCalls = 0
  /\ OkResponses(ReadOnlyTypes) # {}
  /\ ErrResponses(ReadOnlyTypes) # {}

\* C3: the handler never starts on a request while the handler of an earlier
\* request is still awaiting its persistence write.
C3_OneAtATime ==
  [][(Begins /\ IsValid(Head(inbox))) => (\A w \in writes : w.owner = 0)]_vars

\* C4: the Storage Capability operations of the requests are invoked in the
\* order the requests arrived (ids are given in arrival order), whatever the
\* order of the persistence writes and of the responses.
C4_AppliedInArrivalOrder ==
  \A i, j \in DOMAIN applied : i < j => applied[i] < applied[j]

\* C4 witness: two mutations were applied and the second was answered while
\* the first still awaits its write.
C4_Witness ==
  \E w \in writes :
    /\ w.owner # 0
    /\ \E m \in OkResponses(MutatingTypes) : m.for.id > w.owner

\* C5: until `ready` is posted, no Storage Capability operation has been
\* invoked for a request and no request's persistence write is in flight.
C5_NothingServedBeforeReady ==
  ~ReadyPosted => (applied = <<>> /\ \A w \in writes : w.owner = 0)

Signals == {i \in DOMAIN posted : posted[i].kind \in {"ready", "fatal"}}

\* C6: at most one lifecycle signal is ever posted; the bootstrap has ended
\* exactly when one has been posted; a fatal signal carries an error message
\* and a ready signal none.
C6_OneLifecycleSignal ==
  /\ Cardinality(Signals) <= 1
  /\ (bootPc = "done") = (Cardinality(Signals) = 1)
  /\ \A i \in Signals : (posted[i].kind = "fatal") = (posted[i].error # "")

\* C6 witness: the bootstrap faulted after the tree was restored or seeded.
C6_Witness ==
  /\ bootPc = "done"
  /\ FatalPosted
  /\ tree # EmptyTree

\* C7: a request sent after `fatal` was posted is never answered ok=true and
\* no Storage Capability operation is invoked for it.
C7_UnreadyAfterFatal ==
  /\ \A m \in Range(posted) : (m.kind = "response" /\ m.for.id \in afterFatal) => ~m.ok
  /\ \A i \in DOMAIN applied : applied[i] \notin afterFatal

Responses(id) == {i \in DOMAIN posted : posted[i].kind = "response" /\ posted[i].id = id}

InHandling(id) ==
  \/ \E k \in DOMAIN inbox : inbox[k].id = id
  \/ \E w \in writes : w.owner = id

\* C8: a well-formed request has no response while it is queued or its
\* handler awaits the persistence write, and exactly one from then on, either
\* ok=true or ok=false with an error message; no other response is posted.
C8_OneResponsePerRequest ==
  /\ \A id \in 1..(nextId - 1) :
       IF id \in accepted
         THEN /\ Cardinality(Responses(id)) = (IF InHandling(id) THEN 0 ELSE 1)
              /\ \A i \in Responses(id) : posted[i].ok = (posted[i].error = "")
         ELSE Responses(id) = {}
  /\ \A i \in DOMAIN posted : posted[i].kind = "response" => posted[i].id \in accepted

\* C8 witness: a request of an unknown type was answered with an error and a
\* mutating request with ok=true.
C8_Witness ==
  /\ ErrResponses({"bogus"}) # {}
  /\ OkResponses(MutatingTypes) # {}

\* C9: every call completes at most once, only with the response produced
\* for its own request, is completed once that response has arrived, and
\* leaves the pending table when it completes.
C9_Correlation ==
  \A id \in Ids :
    /\ Len(completions[id]) <= 1
    /\ \A j \in DOMAIN completions[id] : completions[id][j].for.id = id
    /\ completions[id] # <<>> => (id \in calls /\ id \notin pending)
    /\ (id \in calls /\ \E d \in delivered :
                          posted[d[1]].kind = "response" /\ posted[d[1]].for.id = id)
         => Len(completions[id]) = 1

\* C9 witness: of two outstanding calls the later one has completed while the
\* earlier one is still pending.
C9_Witness ==
  \E a, b \in calls : a < b /\ a \in pending /\ completions[b] # <<>>

\* C10: when a response arrives whose id is not in the pending table, the
\* pending table and every call's completion stay as they were.
C10_UnknownIdDiscarded ==
  [][\A i \in DOMAIN posted :
       (/\ delivered' = delivered \cup {<<i, Times(i) + 1>>}
        /\ posted[i].kind = "response"
        /\ posted[i].id \notin pending)
       => (pending' = pending /\ completions' = completions)]_vars

\* C10 witness: the client received a second copy of the response that
\* completed a call, and the response to a request it never called.
C10_Witness ==
  /\ \E d \in delivered :
       /\ d[2] = 2
       /\ posted[d[1]].kind = "response"
       /\ posted[d[1]].for.id \in calls
       /\ Len(completions[posted[d[1]].for.id]) = 1
  /\ \E d \in delivered :
       /\ posted[d[1]].kind = "response"
       /\ posted[d[1]].for.id \notin calls

(***************************************************************************)
(* Properties of the bootstrap.                                            *)
(***************************************************************************)
\* A step in which the bootstrap goes on from the await of idbGetBytes.
LoadStep == bootPc = "load" /\ bootPc' # "load"

\* A step in which the bootstrap goes on from the await of a persist.
RepairStep == bootPc \in AwaitingPersist /\ bootPc' # bootPc

\* The step in which idbGetBytes rejected.
GetRejected == Posts /\ Posting.kind = "fatal" /\ Posting.error = "idb get failed"

SeedingRan(sd) == sd.ran > 0 \/ sd.fault

\* Every entry of the tree t is an entry of the tree u.
Keeps(t, u) == \A p \in Paths : t[p] # NONE => u[p] = t[p]

\* The well-known paths and the content the repair step gives them.
WellKnownDefaults ==
  {<<AppConfigPath, "configText">>, <<ThemePath, "defaultThemeCss">>,
   <<EditorDir, DIR>>, <<EditorReadme, "editorInfo">>}

\* Every entry of u that t lacks is a well-known path with its default content.
AddsOnlyDefaults(t, u) ==
  \A p \in Paths : (t[p] = NONE /\ u[p] # NONE) => <<p, u[p]>> \in WellKnownDefaults

\* C11: the key, once present, stays present; the seeding step runs only in
\* the step that loads an absent key; and when the key holds (sound) bytes
\* the step that loads them leaves every entry of the snapshot in the tree
\* and runs no seed operation.
C11_SeedOnlyWhenAbsent ==
  [][/\ store.present => store'.present
     /\ (SeedingRan(seed') /\ seed' # seed) => (LoadStep /\ ~store.present)
     /\ (LoadStep /\ store.present /\ ~store.corrupt /\ ~GetRejected)
          => (~SeedingRan(seed') /\ \A e \in store.bytes : tree'[e[1]] = e[2])]_vars

\* C11 witness: the worker is ready on a restored tree that holds the user's
\* file, and no seed operation ran.
C11_Witness ==
  /\ ReadyPosted
  /\ store.present
  /\ ~SeedingRan(seed)
  /\ IsFile(tree, DocA)

\* C12: in the step that posts `ready`, every path the repair step probes
\* exists in the tree.
C12_WellKnownAtReady ==
  [][(Posts /\ Posting.kind = "ready") => \A p \in Range(Probe) : Exists(tree', p)]_vars

\* C13: the step that restores a snapshot leaves every entry of the snapshot
\* in the tree with its type and content, and adds nothing but well-known
\* paths with their default content; every later step of that bootstrap
\* keeps every entry the tree has and adds nothing but well-known defaults.
C13_RestoreKeepsUserData ==
  [][/\ (LoadStep /\ store.present /\ ~store.corrupt /\ ~GetRejected)
          => /\ \A e \in store.bytes : tree'[e[1]] = e[2]
             /\ \A p \in Paths : tree'[p] # NONE
                   => <<p, tree'[p]>> \in store.bytes \cup WellKnownDefaults
     /\ (RepairStep /\ ~SeedingRan(seed))
          => (Keeps(tree, tree') /\ AddsOnlyDefaults(tree, tree'))]_vars

\* C13 witness: the worker is ready on the restored tree of a user who had
\* edited /etc/app-config.json and had no /apps/editor: the edit is kept and
\* the editor's directory was added.
C13_Witness ==
  /\ ReadyPosted
  /\ ~SeedingRan(seed)
  /\ tree[AppConfigPath] = "hi"
  /\ IsFile(tree, EditorReadme)

\* C14: when a run of the bootstrap ended ready with the key present, the
\* next run on the store it left is ready with the same tree (so the same
\* well-known paths) and has called idbSetBytes not once.
C14_IdempotentBootstrap ==
  (ended # <<>> /\ ended[Len(ended)].ready /\ ended[Len(ended)].present /\ ReadyPosted)
    => (tree = ended[Len(ended)].tree /\ setCalls = 0)

\* C14 witness: the second run is ready on a tree the first run had to repair.
C14_Witness ==
  /\ ended # <<>>
  /\ ended[Len(ended)].ready
  /\ ended[Len(ended)].present
  /\ ReadyPosted
  /\ tree[AppConfigPath] = "hi"
  /\ IsFile(tree, EditorReadme)

\* C15: in the step in which a seed operation faults, the path of every seed
\* operation that succeeded exists in the tree, and the bootstrap posts
\* `ready`, or awaits the persist of a repair, or posts `fatal` because a
\* probed path is missing and cannot be created (its parent is missing);
\* the later steps of that bootstrap keep every entry of the tree.
C15_SeedFaultTolerated ==
  [][/\ (LoadStep /\ seed'.fault)
          => /\ \A i \in 1..seed'.ran : Exists(tree', SeedOps[i].path)
             /\ IF Posts
                  THEN \/ Posting.kind = "ready"
                       \/ \E p \in Range(Probe) :
                            ~Exists(tree', p) /\ ~IsDir(tree', Parent(p))
                  ELSE bootPc' \in AwaitingPersist \ {"seedPersist"}
     /\ (RepairStep /\ seed.fault) => Keeps(tree, tree')]_vars

\* C15 witness: seeding faulted after some of its operations, and the worker
\* is ready.
C15_Witness ==
  /\ seed.fault
  /\ seed.ran > 0
  /\ ReadyPosted


(***************************************************************************)
(* Terminal properties.                                                    *)
(***************************************************************************)
\* The line typed last, and whether one was typed.
Typed == Len(inputs) > 0
LastLine == inputs[Len(inputs)]

\* The command word of a line ("" when the line has none).
Command(line) ==
  LET tokens == tokenize(trim(line))
  IN IF tokens = <<>> THEN "" ELSE Str(tokens[1])

\* The text of the absolute path whose segments are kp.
RECURSIVE PathText(_)
PathText(kp) ==
  IF kp = <<>> THEN "/"
  ELSE IF Len(kp) = 1 THEN "/" \o kp[1]
  ELSE PathText(SubSeq(kp, 1, Len(kp) - 1)) \o "/" \o kp[Len(kp)]

\* A segment of p starts at i and ends at j.
IsSegment(p, i, j) ==
  /\ i \in DOMAIN p /\ j \in DOMAIN p /\ i <= j
  /\ i > 1 /\ p[i - 1] = "/"
  /\ j = Len(p) \/ p[j + 1] = "/"
  /\ \A k \in i..j : p[k] # "/"

\* C16: in every reachable state of a Terminal, whatever the cwd option it
\* was constructed with and whatever lines were executed, cwd starts with
\* '/', has no empty segment, no '.' segment and no '..' segment, and has no
\* trailing slash unless it is exactly '/'.
C16_CwdAbsoluteNormalized ==
  /\ Len(cwd) > 0 /\ cwd[1] = "/"
  /\ \A i \in 1..(Len(cwd) - 1) : ~(cwd[i] = "/" /\ cwd[i + 1] = "/")
  /\ Len(cwd) > 1 => cwd[Len(cwd)] # "/"
  /\ \A i, j \in DOMAIN cwd :
       IsSegment(cwd, i, j) => SubSeq(cwd, i, j) \notin {<<".">>, <<".", ".">>}

\* A Terminal whose cwd was changed by a cd through '.' and '..' segments and
\* a trailing slash.
C16_Witness ==
  /\ Typed
  /\ LastLine = <<"c", "d", " ", "d", "o", "c", "s", "/", ".", ".", "/", "d", "o", "c", "s", "/", ".", "/">>
  /\ last.res.code = 0
  /\ cwd = <<"/", "d", "o", "c", "s">>
  /\ \E i \in DOMAIN cwd : IsSegment(cwd, i, Len(cwd))

\* C17: an exec of `cd` whose stat of the target fails returns
\* 'directory not found: <path>' and one whose target is a file returns
\* 'not a directory: <path>', both with code 1 and with cwd as it was; a
\* failed `cd` never changes cwd; an exec of any other command, successful or
\* not, leaves cwd as it was.
C17_CwdOnlyBySuccessfulCd ==
  [][inputs' # inputs =>
       LET cmd == Command(inputs'[Len(inputs')])
       IN /\ cmd # "cd" => cwd' = cwd
          /\ cmd = "cd" =>
               /\ Len(last'.issued) = 1
               /\ last'.issued[1].type = "fs_stat"
               /\ LET call == last'.issued[1]
                      a == Answer(call, tree, last'.rej)
                  IN /\ ~a.ok =>
                          /\ last'.res = [stdout |-> "",
                                          stderr |-> "directory not found: " \o PathText(call.path),
                                          code |-> 1]
                          /\ cwd' = cwd
                     /\ a.ok /\ a.result.is_file =>
                          /\ last'.res = [stdout |-> "",
                                          stderr |-> "not a directory: " \o PathText(call.path),
                                          code |-> 1]
                          /\ cwd' = cwd
               /\ last'.res.code # 0 => cwd' = cwd]_vars

\* A `cd` to a file, typed in /docs after a successful `cd /docs`, has failed
\* and the Terminal is still in /docs.
C17_Witness ==
  /\ Len(inputs) = 2
  /\ inputs[1] = <<"c", "d", " ", "/", "d", "o", "c", "s">>
  /\ Command(inputs[2]) = "cd"
  /\ last.res.stderr = "not a directory: /docs/a.txt"
  /\ last.res.code = 1
  /\ cwd = <<"/", "d", "o", "c", "s">>

\* What is left of a line between its first and its last character that is
\* not white space.
Core(line) ==
  LET inked == {i \in DOMAIN line : line[i] \notin WhiteSpace}
  IN IF inked = {} THEN <<>>
     ELSE SubSeq(line, CHOOSE i \in inked : \A j \in inked : i <= j,
                       CHOOSE i \in inked : \A j \in inked : j <= i)

\* C18: after any sequence of exec calls, history is the sequence of the
\* trimmed input lines that were not empty after trimming, in call order,
\* whether or not their command failed or was found; a line that is empty
\* after trimming adds no entry and no entry is removed, reordered or merged.
C18_HistoryIsTrimmedLines ==
  history = SelectSeq([i \in DOMAIN inputs |-> Core(inputs[i])], NonEmpty)

\* A padded line and a line whose command is not found are both in history,
\* the first one trimmed.
C18_Witness ==
  /\ Len(inputs) = 2
  /\ inputs[1] = <<" ", " ", "p", "w", "d", " ">>
  /\ inputs[2] = <<"n", "o", "s", "u", "c", "h", " ", "x">>
  /\ last.res.code # 0
  /\ history = << <<"p", "w", "d">>, <<"n", "o", "s", "u", "c", "h", " ", "x">> >>

\* C19: exec never throws: whatever the line and whatever the Storage
\* Capability answers, errors thrown inside `hello` and inside the
\* file-creating write of `edit` included, exec returns a result that is a
\* success (code 0, stderr empty) or a failure (code not 0, stdout empty,
\* stderr not empty).
C19_ExecNeverThrows ==
  /\ ~last.threw
  /\ \/ last.res.code = 0 /\ last.res.stderr = ""
     \/ last.res.code # 0 /\ last.res.stdout = "" /\ last.res.stderr # ""

\* `hello` was executed while its call to the kernel failed: the error the
\* handler let through is the message of a failure.
C19_Witness ==
  /\ Typed
  /\ Command(LastLine) = "hello"
  /\ "hello" \in last.rej
  /\ Len(last.issued) = 1
  /\ last.res = [stdout |-> "", stderr |-> "kernel call failed", code |-> 1]

\* C20: an exec of `echo` whose arguments hold no `>` token, or hold it as
\* their last argument, returns the usage failure and asks for no write.
C20_EchoUsageWithoutTarget ==
  [][inputs' # inputs /\ Command(inputs'[Len(inputs')]) = "echo" =>
       LET args == Tail(tokenize(trim(inputs'[Len(inputs')])))
       IN (\A i \in DOMAIN args : args[i] = <<">">> => i = Len(args)) =>
            /\ last'.res = [stdout |-> "", stderr |-> "usage: echo <text> > <file>", code |-> 1]
            /\ \A i \in DOMAIN last'.issued : last'.issued[i].type # "fs_write_file"]_vars

\* The arguments of a line: its tokens after the command word.
Args(line) == LET tokens == tokenize(trim(line)) IN IF tokens = <<>> THEN <<>> ELSE Tail(tokens)
Confirm == <<"-", "-", "c", "o", "n", "f", "i", "r", "m">>
Untouched == store' = store /\ tree' = tree /\ setCalls' = setCalls /\ page' = page

C22_ResolutionStaysUnderRoot ==
  (given # <<>> /\ given[1] = "resolvePath" /\ got # <<>>) =>
    LET dir == given[2]
        p == given[3]
        r == got[1]
    IN /\ Len(r) > 0 /\ r[1] = "/"
       /\ \A i \in 1..(Len(r) - 1) : ~(r[i] = "/" /\ r[i + 1] = "/")
       /\ Len(r) > 1 => r[Len(r)] # "/"
       /\ \A i, j \in DOMAIN r :
            IsSegment(r, i, j) => SubSeq(r, i, j) \notin {<<".">>, <<".", ".">>}
       /\ (dir = <<"/">> /\ p = <<".", ".", "/", ".", ".", "/", "x">>) => r = <<"/", "x">>
       /\ (p # <<>> /\ p[1] = "/") =>
            \A other \in {<<"/">>, <<"/", "x">>, <<"/", "x", "/", "x">>} :
              normalizePath(resolvePath(other, p)) = r
       /\ p \in {<<>>, <<".">>} => r = dir

\* '../../x' was resolved from '/' and gave '/x'.
C22_Witness ==
  /\ given = <<"resolvePath", <<"/">>, <<".", ".", "/", ".", ".", "/", "x">> >>
  /\ got = << <<"/", "x">> >>

\* C23: tokenize emits no empty token and splits only at white space met
\* outside quotes (it returns at most one token more than the input has
\* white space; an input with no quote gives its words, the pending one at
\* the end included).  What stands between two single quotes is one token
\* copied as it is, white space, double quotes and backslashes included; so
\* is what stands between two double quotes when it holds no backslash.  A
\* quote that is never closed takes the rest of the input as one token.
C23_TokenizeQuoting ==
  (given # <<>> /\ given[1] = "tokenize" /\ got # <<>>) =>
    LET input == given[2]
        tokens == got[1]
        Has(cs, S) == \E i \in DOMAIN cs : cs[i] \in S
        Inked(c) == c \notin WhiteSpace
        inner == SubSeq(input, 2, Len(input) - 1)
        rest == SubSeq(input, 2, Len(input))
    IN /\ \A k \in DOMAIN tokens : tokens[k] # <<>>
       /\ Len(tokens) <= Cardinality({i \in DOMAIN input : input[i] \in WhiteSpace}) + 1
       /\ ~Has(input, {"'", "\""}) => Join(tokens, <<>>) = SelectSeq(input, Inked)
       /\ (~Has(input, {"'", "\""}) /\ input # <<>> /\ Inked(input[Len(input)])) =>
            /\ tokens # <<>>
            /\ tokens[Len(tokens)][Len(tokens[Len(tokens)])] = input[Len(input)]
       /\ (Len(input) >= 3 /\ input[1] = "'" /\ input[Len(input)] = "'" /\ ~Has(inner, {"'"})) =>
            tokens = <<inner>>
       /\ (Len(input) >= 3 /\ input[1] = "\"" /\ input[Len(input)] = "\""
             /\ ~Has(inner, {"\"", "\\"})) =>
            tokens = <<inner>>
       /\ (Len(input) >= 2 /\ input[1] = "'" /\ ~Has(rest, {"'"})) => tokens = <<rest>>
       /\ (Len(input) >= 2 /\ input[1] = "\"" /\ ~Has(rest, {"\"", "\\"})) => tokens = <<rest>>

\* An input that opens a double quote and never closes it was tokenized: the
\* rest, white space included, is its one token.
C23_Witness ==
  /\ given = <<"tokenize", <<"\"", "a", " ", "a">> >>
  /\ got = << << <<"a", " ", "a">> >> >>

(***************************************************************************)
(* Properties of `tree`.                                                   *)
(***************************************************************************)
\* The lines that draw, in the tree t, the children of kpath from the i-th on:
\* the directories in lexicographic order, then the files in lexicographic
\* order; a directory with a trailing '/', followed by its own children under
\* a longer prefix; the last child of a level after the last connector.
RECURSIVE Drawn(_, _, _, _)
Drawn(t, kpath, prefix, i) ==
  LET names == {c[Len(c)] : c \in Children(t, kpath)}
      order == Sorted({n \in names : IsDir(t, Append(kpath, n))})
                 \o Sorted({n \in names : ~IsDir(t, Append(kpath, n))})
  IN IF ~IsDir(t, kpath) \/ i > Len(order) THEN <<>>
     ELSE LET n == order[i]
              isLast == i = Len(order)
              row == prefix \o (IF isLast THEN "+-- " ELSE "|-- ") \o n
          IN IF IsDir(t, Append(kpath, n))
               THEN <<row \o "/">>
                      \o Drawn(t, Append(kpath, n), prefix \o (IF isLast THEN "    " ELSE "|   "), 1)
                      \o Drawn(t, kpath, prefix, i + 1)
             ELSE <<row>> \o Drawn(t, kpath, prefix, i + 1)

\* The output of `tree` on the path kpath of the tree t.
Picture(t, kpath) == JoinLines(<<PathText(kpath)>> \o Drawn(t, kpath, "", 1))

\* C24 as stated: the output of a `tree` whose calls are all answered is the
\* picture of the tree (the resolved path first, at every level directories
\* before files, each group in lexicographic order, the connectors and the
\* prefixes as described), also when another caller mutates the tree between
\* the calls of the handler: then it is the picture of the tree before or of
\* the tree after.
C24_TreePictureAmidMutation ==
  [][inputs' # inputs /\ Command(inputs'[Len(inputs')]) = "tree" /\ last'.rej = {} =>
       /\ last'.res.code = 0
       /\ last'.res.stdout \in {Picture(tree, last'.issued[1].path),
                                Picture(tree', last'.issued[1].path)}]_vars

\* C24, amended: the output of a `tree` whose calls are all answered, and
\* during which no other caller mutates the tree, is the picture of the tree.
C24_TreePicture ==
  [][inputs' # inputs /\ Command(inputs'[Len(inputs')]) = "tree" /\ last'.rej = {}
       /\ tree' = tree =>
       last'.res = [stdout |-> Picture(tree, last'.issued[1].path), stderr |-> "", code |-> 0]]_vars

\* `tree` was typed in '/' on a tree that has at its top level the file a.txt
\* and directories with children, apps among them.
C24_Witness ==
  /\ Typed
  /\ LastLine = <<"t", "r", "e", "e">>
  /\ cwd = <<"/">>
  /\ last.rej = {}
  /\ IsFile(tree, <<"a.txt">>)
  /\ IsDir(tree, <<"apps">>) /\ Children(tree, <<"apps">>) # {}
  /\ last.res.stdout = Picture(tree, Root)

C26_EditWritesOnlyMissing ==
  [][inputs' # inputs /\ Command(inputs'[Len(inputs')]) \in {"edit", "open"}
       /\ Args(inputs'[Len(inputs')]) # <<>> =>
       LET cmd == Command(inputs'[Len(inputs')])
           stat == last'.issued[1]
           a == Answer(stat, tree, last'.rej)
           target == stat.path
           written == {i \in DOMAIN last'.issued : last'.issued[i].type \in MutatingTypes}
           isDirectory == [stdout |-> "",
                           stderr |-> PathText(target) \o " is a directory, not a file",
                           code |-> 1]
       IN /\ stat.type = "fs_stat"
          /\ (a.ok /\ a.result.is_dir) =>
               last'.res = isDirectory /\ written = {} /\ tree' = tree /\ last'.hook = ""
          /\ cmd = "edit" =>
               /\ ~a.ok =>
                    /\ Len(last'.issued) = 2
                    /\ last'.issued[2] = Req("fs_write_file", target, Root, "")
                    /\ last'.res.code = 0 =>
                         /\ tree' = [tree EXCEPT ![target] = ""]
                         /\ last'.hook = "openEditor " \o PathText(target)
               /\ (a.ok /\ a.result.is_file) =>
                    /\ written = {}
                    /\ tree' = tree
                    /\ last'.res = [stdout |-> "Editing " \o PathText(target) \o "...",
                                    stderr |-> "", code |-> 0]
                    /\ last'.hook = "openEditor " \o PathText(target)
               /\ (last'.rej = {} /\ written # {}) => ~Exists(tree, target)]_vars

\* `edit /docs/b.txt` was typed while /docs/b.txt did not exist: the file is
\* there, empty, and the editor hook was called.
C26_Witness ==
  /\ Len(inputs) = 1
  /\ Command(LastLine) = "edit"
  /\ last.rej = {}
  /\ Len(last.issued) = 2
  /\ last.res.code = 0
  /\ last.hook = "openEditor /docs/b.txt"
  /\ tree = [UserTree EXCEPT ![DocB] = ""]

\* C27: a mutating request answered with ok=false leaves the filesystem as it
\* was: at the error response the in-memory tree equals the tree the handler
\* started on, whether the kernel call threw or the persistence write that
\* followed a successful call was rejected.
C27_ErrorLeavesTree ==
  [][(Posts /\ Posting.kind = "response" /\ ~Posting.ok /\ Posting.for.type \in MutatingTypes)
       => IF Begins
            THEN tree' = tree
            ELSE \A w \in writes \ writes' : w.req = Posting.for => tree' = w.before]_vars

\* C28: at the moment the bootstrap posts `ready`, the Durable Byte Store
\* holds a snapshot equal to the in-memory tree, on every path through the
\* bootstrap (restored, restored and repaired, seeded, partially seeded).
C28_ReadyOnStoredTree ==
  [][(Posts /\ Posting.kind = "ready") => store' = Stored(fs_dump_state(tree'))]_vars

\* C29: once the bootstrap has posted `ready`, every mutating request has been
\* answered with ok=true and nothing is queued or awaiting a persistence
\* write, the snapshot in the Durable Byte Store equals the in-memory tree,
\* also when the writes of several requests were pending together.
C29_StoreEndsOnLastMutation ==
  ( /\ ReadyPosted
    /\ inbox = <<>>
    /\ writes = {}
    /\ OkResponses(MutatingTypes) # {}
    /\ ErrResponses(MutatingTypes) = {} )
  => store = Stored(fs_dump_state(tree))

\* C30: a startup on a snapshot the user's terminal commands left (also after
\* /etc, /apps/editor or their contents were removed with rm, rmdir or mv)
\* restores it and ends its repair step with `ready`, never with `fatal`.
C30_StartupEndsReady ==
  (ended # <<>> /\ bootPc = "done") => (ReadyPosted /\ ~FatalPosted)

(***************************************************************************)
(* Properties of cwd.                                                      *)
(***************************************************************************)
\* C31: on a Terminal started at an existing directory, cwd names an existing
\* directory of the filesystem after every exec, also after an rmdir or mv
\* whose argument resolves to cwd or to one of its ancestors.
C31_CwdIsDirectory ==
  IsDir(tree, KernelPath(cwd))

(***************************************************************************)
(* Properties of the window manager.                                       *)
(***************************************************************************)
\* C32: after any sequence of open, close, minimize, maximize and status-bar
\* click actions, at most one window is maximized, and focusedWindow is
\* undefined or the id of a window of the window list.
C32_OneMaximizedFocusExists ==
  /\ Cardinality({i \in DOMAIN windows : windows[i].maximized}) <= 1
  /\ \/ focusedWindow = Undefined
     \/ \E i \in DOMAIN windows : windows[i].id = focusedWindow

\* A window was closed, two remain, the second of them is maximized after the
\* first had been, and the focused one is a minimized window.
C32_Witness ==
  /\ created > Len(windows)
  /\ Len(windows) = 2
  /\ windows[2].maximized /\ ~windows[1].maximized
  /\ windows[1].minimized
  /\ focusedWindow = windows[1].id

====
